---- MODULE Spec2Model ----
(***************************************************************************)
(* Model of DataConverterPro's table pipeline:                             *)
(*   - PdfExtractor (src/extractors/pdf_extractor.py): three backends,     *)
(*     _clean_table_data, _deduplicate_tables, _calculate_table_similarity *)
(*   - ImageExtractor._parse_ocr_to_table (src/extractors/                 *)
(*     image_extractor.py): OCR word clustering into a grid                *)
(*   - DataProcessor (src/utils/data_processor.py): _has_headers and       *)
(*     _process_table_headers                                              *)
(*                                                                         *)
(* A Python str is modelled as a sequence of one-character strings, so     *)
(* that strip(), lower(), split() and the regular expressions act on      *)
(* characters as they do in the code.                                      *)
(***************************************************************************)
EXTENDS Integers, Sequences, FiniteSets, TLC

VARIABLES
    pipeline,        \* which entry point runs: "pdf", "image", "csv", "cell", ...
    pc,              \* position inside that entry point
    \* ---- PdfExtractor.extract_tables / _deduplicate_tables
    all_tables,      \* extract_tables: all_tables
    unique_tables,   \* _deduplicate_tables: unique_tables (the accumulator)
    idx,             \* _deduplicate_tables: position of the outer for loop
    last,            \* locals of the last outer iteration: table, is_duplicate, existing_table
    \* ---- ImageExtractor._parse_ocr_to_table
    ocr_data,        \* the OCR engine's output, one record per entry of the parallel arrays
    words,           \* words (filtered, then sorted by top)
    rows,            \* rows closed so far
    current_row,     \* the open row
    ocr_table,       \* _parse_ocr_to_table: the returned table_data
    \* ---- DataProcessor._process_table_headers
    cleaned_table,   \* the cleaned grid handed to _process_table_headers
    processed_table, \* what _process_table_headers returned
    \* ---- DataProcessor._clean_cell_content
    raw_cell,        \* the cell handed to _clean_cell_content
    cleaned_cell,    \* what _clean_cell_content returned
    \* ---- the quality scorers
    scored_tables,   \* the tables handed to _calculate_quality_metrics
    method_results,  \* the success flags of the PDF extraction methods
    quality_metrics, \* the metrics returned, in thousandths
    \* ---- PdfExtractor.extract_tables: its warnings and what it returns
    warnings,        \* extract_tables: warnings
    pdf_result,      \* the dictionary extract_tables returned
    \* ---- convert_file (src/app.py) and DataProcessor.convert_to_csv
    extraction_result,\* convert_file: extraction_result
    table_no,        \* convert_to_csv: position of the loop over tables_data
    combined_data,   \* convert_to_csv: combined_data
    csv_result,      \* convert_file: csv_result
    output_file,     \* the CSV file in the output folder, once written
    response,        \* the JSON response and its status
    \* ---- ImageExtractor.extract_tables
    image_shape,     \* processed_image.shape: <<height, width>>
    contours,        \* _detect_table_regions: the contours cv2.findContours returned
    detection_raised,\* _detect_table_regions: an exception was caught and [] returned
    table_regions,   \* extract_tables: table_regions
    region_no,       \* extract_tables: position of the loop over table_regions
    full_text,       \* _extract_full_text_as_table: the text of the whole image
    fallback_calls,  \* calls of _extract_full_text_as_table so far
    image_tables,    \* extract_tables: tables_data
    image_warnings,  \* extract_tables: warnings
    image_result,    \* the dictionary extract_tables returned
    \* ---- convert_to_csv: table_info, and the upload saved by convert_file
    table_info,      \* convert_to_csv: table_info
    temp_file        \* the upload at temp_filepath: "absent", "saved" or "removed"

vars == <<pipeline, pc, all_tables, unique_tables, idx, last,
          ocr_data, words, rows, current_row, ocr_table,
          cleaned_table, processed_table,
          raw_cell, cleaned_cell,
          scored_tables, method_results, quality_metrics,
          warnings, pdf_result,
          extraction_result, table_no, combined_data, csv_result, output_file, response,
          image_shape, contours, detection_raised, table_regions, region_no, full_text, fallback_calls, image_tables, image_warnings, image_result,
          table_info, temp_file>>

pdfVars == <<all_tables, unique_tables, idx, last, warnings, pdf_result>>
imageVars == <<ocr_data, words, rows, current_row, ocr_table>>
csvVars == <<cleaned_table, processed_table>>
cellVars == <<raw_cell, cleaned_cell>>
scoreVars == <<scored_tables, method_results, quality_metrics>>
convVars == <<extraction_result, table_no, combined_data, csv_result, output_file, response, table_info, temp_file>>
extractVars == <<image_shape, contours, detection_raised, table_regions, region_no, full_text, fallback_calls, image_tables, image_warnings, image_result>>

(***************************************************************************)
(* Bounds of the model                                                     *)
(***************************************************************************)
\* most tables the three PDF backends return together for one document
MaxTables == 4
\* most entries in the OCR engine's output for one region
MaxTokens == 3
\* most columns of a grid handed to header processing
MaxCols == 3
\* most characters of a cell drawn from CellAlphabet
MaxChars == 3
\* most tables handed to a quality scorer
MaxScored == 2
\* most tables in the extraction result of an upload
MaxExtracted == 2
\* most contours found in an image
MaxContours == 2
\* most lines of the text of a whole image
MaxLines == 2

(***************************************************************************)
(* Python str and list primitives                                          *)
(***************************************************************************)
Min(a, b) == IF a < b THEN a ELSE b
Max(a, b) == IF a > b THEN a ELSE b

RECURSIVE SumSeq(_)
SumSeq(s) == IF s = <<>> THEN 0 ELSE Head(s) + SumSeq(Tail(s))

RECURSIVE MaxSeq(_)
MaxSeq(s) == IF s = <<>> THEN 0 ELSE Max(Head(s), MaxSeq(Tail(s)))

\* the sequences over S of length 0..n
SeqsUpTo(S, n) == UNION {[1..k -> S] : k \in 0..n}

\* str(cell) for a str, written with one element per character
Str(s) == s

WhitespaceChars == {" ", "\t", "\n", "\r"}
DigitChars == {"0", "1", "2", "3", "4", "5", "6", "7", "8", "9"}
UpperChars ==
    {"A", "B", "C", "D", "E", "F", "G", "H", "I", "J", "K", "L", "M",
     "N", "O", "P", "Q", "R", "S", "T", "U", "V", "W", "X", "Y", "Z"}
LowerChars ==
    {"a", "b", "c", "d", "e", "f", "g", "h", "i", "j", "k", "l", "m",
     "n", "o", "p", "q", "r", "s", "t", "u", "v", "w", "x", "y", "z"}

\* the ASCII letters in alphabetical order
UpperSeq ==
    <<"A", "B", "C", "D", "E", "F", "G", "H", "I", "J", "K", "L", "M",
      "N", "O", "P", "Q", "R", "S", "T", "U", "V", "W", "X", "Y", "Z">>
LowerSeq ==
    <<"a", "b", "c", "d", "e", "f", "g", "h", "i", "j", "k", "l", "m",
      "n", "o", "p", "q", "r", "s", "t", "u", "v", "w", "x", "y", "z">>

\* str.lower() on one character
LowerChar(c) ==
    IF c \in UpperChars THEN LowerSeq[CHOOSE k \in 1..26 : UpperSeq[k] = c] ELSE c

\* str.lower()
Lower(s) == [i \in 1..Len(s) |-> LowerChar(s[i])]

RECURSIVE LStrip(_)
LStrip(s) ==
    IF s # <<>> /\ Head(s) \in WhitespaceChars THEN LStrip(Tail(s)) ELSE s

RECURSIVE RStrip(_)
RStrip(s) ==
    IF s # <<>> /\ s[Len(s)] \in WhitespaceChars
    THEN RStrip(SubSeq(s, 1, Len(s) - 1))
    ELSE s

\* str.strip()
Strip(s) == RStrip(LStrip(s))

\* ' '.join(s.split()): runs of whitespace become one space, none at the ends
RECURSIVE CollapseFrom(_)
CollapseFrom(s) ==
    IF s = <<>> THEN <<>>
    ELSE IF Head(s) \in WhitespaceChars
         THEN LET rest == LStrip(s)
              IN IF rest = <<>> THEN <<>> ELSE <<" ">> \o CollapseFrom(rest)
         ELSE <<Head(s)>> \o CollapseFrom(Tail(s))

JoinSplit(s) == CollapseFrom(LStrip(s))

\* str(n) for a natural number n
RECURSIVE IntStr(_)
IntStr(n) ==
    LET d == CASE n % 10 = 0 -> "0" [] n % 10 = 1 -> "1" [] n % 10 = 2 -> "2"
               [] n % 10 = 3 -> "3" [] n % 10 = 4 -> "4" [] n % 10 = 5 -> "5"
               [] n % 10 = 6 -> "6" [] n % 10 = 7 -> "7" [] n % 10 = 8 -> "8"
               [] OTHER -> "9"
    IN IF n < 10 THEN <<d>> ELSE IntStr(n \div 10) \o <<d>>

\* Python's None, as a cell and as a row of a backend's raw output
None == <<"None">>
NoneRow == << <<"None", "row">> >>
\* pandas' NaN, as a cell or a column label of a DataFrame
NaN == <<"nan">>

\* the rows of a grid all have the same length
Rectangular(g) == \A i, j \in 1..Len(g) : Len(g[i]) = Len(g[j])

(***************************************************************************)
(* PdfExtractor: what the three backends hand to the extractor             *)
(***************************************************************************)
\* the table of the document as printed: 3 rows, 2 columns
TrueGrid == << <<<<"n">>, <<"v">>>>, <<<<"a">>, <<"1">>>>, <<<<"b">>, <<"2">>>> >>

\* grid g with cell (i, j) replaced by text
Put(g, i, j, text) == [g EXCEPT ![i][j] = text]

\* page.extract_tables() of pdfplumber: rows may be None or short, cells None or unstripped
PlumberRawTables ==
    { Put(TrueGrid, 1, 2, <<" ", "v", " ", " ">>),
      << TrueGrid[1], << <<"a">> >>, NoneRow, TrueGrid[3], <<None, None>> >>,
      << <<<<"m">>, <<"v">>>>, TrueGrid[2], TrueGrid[3] >>,
      << TrueGrid[1], TrueGrid[2] >> }

\* a DataFrame: column labels and rows of values
DataFrame(columns, values) == [columns |-> columns, values |-> values]

\* tabula.read_pdf(...): the first row of the table becomes the column labels
TabulaFrames ==
    { DataFrame(<<<<"N">>, <<"v">>>>, <<TrueGrid[2], TrueGrid[3]>>),
      DataFrame(TrueGrid[1], <<TrueGrid[2], <<<<"b">>, NaN>>>>),
      DataFrame(<<<<"n", " ">>>>, <<<<<<"a">>>>, <<<<"b">>>>>>) }

\* table.accuracy of camelot, a percentage
CamelotAccuracies == {0, 50, 90}

\* table.df of camelot (its column labels are not read by the code)
CamelotFrames ==
    { DataFrame(<<>>, TrueGrid),
      DataFrame(<<>>, << TrueGrid[1], <<<<>>, <<" ">>>>,
                         <<<<"a">>, <<" ", "1">>>>, <<<<"d">>, <<"2">>>> >>) }

CamelotTables == [df : CamelotFrames, accuracy : CamelotAccuracies]

(***************************************************************************)
(* PdfExtractor._clean_table_data                                          *)
(***************************************************************************)
\* one cell of _clean_table_data: None becomes '', text is stripped and its whitespace collapsed
CleanCell(cell) == IF cell = None THEN <<>> ELSE JoinSplit(Strip(Str(cell)))

\* right-pad a row with '' up to n cells
PadRow(row, n) == row \o [k \in 1..(n - Len(row)) |-> <<>>]

\* the rows of table_data that are not None, cleaned, those without content dropped
RECURSIVE CleanedRows(_)
CleanedRows(table_data) ==
    IF table_data = <<>> THEN <<>>
    ELSE LET row == Head(table_data)
             cleaned_row == [k \in 1..Len(row) |-> CleanCell(row[k])]
         IN IF row = NoneRow THEN CleanedRows(Tail(table_data))
            ELSE IF \E k \in 1..Len(cleaned_row) : cleaned_row[k] # <<>>
                 THEN <<cleaned_row>> \o CleanedRows(Tail(table_data))
                 ELSE CleanedRows(Tail(table_data))

\* the mutant of NormalizeColumnCount that leaves the rows as they are
NormalizeColumnCountNoPad(table) == table

\* "Normalize column count": every row padded to the longest row
NormalizeColumnCount(table) ==
    LET max_cols == MaxSeq([i \in 1..Len(table) |-> Len(table[i])])
    IN [i \in 1..Len(table) |-> PadRow(table[i], max_cols)]

CleanTableData(table_data) ==
    IF table_data = <<>> THEN <<>>
    ELSE NormalizeColumnCount(CleanedRows(table_data))

(***************************************************************************)
(* PdfExtractor._extract_with_pdfplumber / _tabula / _camelot              *)
(***************************************************************************)
RECURSIVE PlumberTablesData(_, _)
PlumberTablesData(page_tables, tables_data) ==
    IF page_tables = <<>> THEN tables_data
    ELSE LET table == Head(page_tables)
             cleaned == CleanTableData(table)
         IN IF Len(table) > 0 /\ cleaned # <<>>
            THEN PlumberTablesData(Tail(page_tables), Append(tables_data,
                     [table_index |-> Len(tables_data), data |-> cleaned,
                      rows |-> Len(cleaned), columns |-> Len(cleaned[1])]))
            ELSE PlumberTablesData(Tail(page_tables), tables_data)

ExtractWithPdfplumber(page_tables) ==
    [success |-> TRUE, tables |-> PlumberTablesData(page_tables, <<>>)]

\* df.empty
DfEmpty(df, ncols) == Len(df.values) = 0 \/ ncols = 0

\* tabula: the header row from the column labels, then the rows
TabulaTableData(df) ==
    LET headers == [i \in 1..Len(df.columns) |->
                       IF df.columns[i] # <<>> /\ df.columns[i] # NaN
                       THEN Str(df.columns[i])
                       ELSE <<"C", "o", "l", "u", "m", "n", "_">> \o IntStr(i - 1)]
        body == [r \in 1..Len(df.values) |->
                    [k \in 1..Len(df.values[r]) |->
                        IF df.values[r][k] # <<>> /\ df.values[r][k] # NaN
                        THEN Str(df.values[r][k]) ELSE <<>>]]
    IN (IF Len(df.columns) > 0 THEN <<headers>> ELSE <<>>) \o body

RECURSIVE TabulaTablesData(_, _, _)
TabulaTablesData(dfs, i, tables_data) ==
    IF i > Len(dfs) THEN tables_data
    ELSE LET df == dfs[i]
             table_data == TabulaTableData(df)
         IN IF ~DfEmpty(df, Len(df.columns)) /\ table_data # <<>>
            THEN TabulaTablesData(dfs, i + 1, Append(tables_data,
                     [table_index |-> i - 1, data |-> table_data,
                      rows |-> Len(table_data), columns |-> Len(table_data[1])]))
            ELSE TabulaTablesData(dfs, i + 1, tables_data)

ExtractWithTabula(dfs) ==
    [success |-> TRUE, tables |-> TabulaTablesData(dfs, 1, <<>>)]

\* camelot: the rows of the DataFrame, cells stripped, rows without content dropped
RECURSIVE CamelotRows(_)
CamelotRows(values) ==
    IF values = <<>> THEN <<>>
    ELSE LET row_data == [k \in 1..Len(Head(values)) |->
                             IF Head(values)[k] # <<>> /\ Head(values)[k] # NaN
                             THEN Strip(Str(Head(values)[k])) ELSE <<>>]
         IN IF \E k \in 1..Len(row_data) : row_data[k] # <<>>
            THEN <<row_data>> \o CamelotRows(Tail(values))
            ELSE CamelotRows(Tail(values))

RECURSIVE CamelotTablesData(_, _, _)
CamelotTablesData(tables, i, tables_data) ==
    IF i > Len(tables) THEN tables_data
    ELSE LET df == tables[i].df
             table_data == CamelotRows(df.values)
         IN IF ~DfEmpty(df, IF df.values = <<>> THEN 0 ELSE Len(df.values[1]))
               /\ table_data # <<>>
            THEN CamelotTablesData(tables, i + 1, Append(tables_data,
                     [table_index |-> i - 1, data |-> table_data,
                      rows |-> Len(table_data), columns |-> Len(table_data[1]),
                      accuracy |-> tables[i].accuracy]))
            ELSE CamelotTablesData(tables, i + 1, tables_data)

ExtractWithCamelot(tables) ==
    [success |-> TRUE, tables |-> CamelotTablesData(tables, 1, <<>>)]

(***************************************************************************)
(* PdfExtractor._calculate_table_similarity                                *)
(***************************************************************************)
\* the cells of the compared corner block that exist in both tables and match
MatchingCells(table1, table2, rows_to_check, cols_to_check) ==
    { <<i, j>> \in (1..rows_to_check) \X (1..cols_to_check) :
        /\ i <= Len(table1) /\ j <= Len(table1[i])
        /\ i <= Len(table2) /\ j <= Len(table2[i])
        /\ Lower(Strip(table1[i][j])) = Lower(Strip(table2[i][j])) }

\* the mutant of CalculateTableSimilarity in which a corner block without cells matches fully
CalculateTableSimilarityOfEmptyBlock(table1, table2) ==
    IF table1 = <<>> \/ table2 = <<>> THEN [num |-> 0, den |-> 1]
    ELSE LET rows_to_check == Min(3, Min(Len(table1), Len(table2)))
             cols_to_check == Min(3, Min(Len(table1[1]), Len(table2[1])))
             total_cells == rows_to_check * cols_to_check
         IN IF rows_to_check = 0 \/ cols_to_check = 0 THEN [num |-> 1, den |-> 1]
            ELSE [num |-> Cardinality(MatchingCells(table1, table2,
                                                    rows_to_check, cols_to_check)),
                  den |-> total_cells]

\* the score as the fraction num / den (0.0 is 0 / 1)
CalculateTableSimilarity(table1, table2) ==
    IF table1 = <<>> \/ table2 = <<>> THEN [num |-> 0, den |-> 1]
    ELSE LET rows_to_check == Min(3, Min(Len(table1), Len(table2)))
             cols_to_check == Min(3, Min(Len(table1[1]), Len(table2[1])))
             total_cells == rows_to_check * cols_to_check
         IN IF rows_to_check = 0 \/ cols_to_check = 0 THEN [num |-> 0, den |-> 1]
            ELSE [num |-> Cardinality(MatchingCells(table1, table2,
                                                    rows_to_check, cols_to_check)),
                  den |-> total_cells]

(***************************************************************************)
(* PdfExtractor._deduplicate_tables                                        *)
(***************************************************************************)
\* table.get('data', [])
Data(table) == IF "data" \in DOMAIN table THEN table.data ELSE <<>>

\* table.get('accuracy', 0)
Accuracy(table) == IF "accuracy" \in DOMAIN table THEN table.accuracy ELSE 0

\* the mutant of SameDimensions that compares the row counts only
SameRowCount(table_data, existing_data) ==
    /\ Len(table_data) = Len(existing_data)
    /\ Len(table_data) > 0 /\ Len(existing_data) > 0

\* the guard of the similarity check: equal row counts, both non-empty, first rows of equal length
SameDimensions(table_data, existing_data) ==
    /\ Len(table_data) = Len(existing_data)
    /\ Len(table_data) > 0 /\ Len(existing_data) > 0
    /\ Len(table_data[1]) = Len(existing_data[1])

\* the mutant of AboveThreshold with the threshold at 0.9
AboveNinety(similarity_score) == 10 * similarity_score.num > 9 * similarity_score.den

\* similarity_score > 0.8
AboveThreshold(similarity_score) == 10 * similarity_score.num > 8 * similarity_score.den

\* the candidate is a duplicate of this accepted table
IsDuplicateOf(table, existing_table) ==
    /\ SameDimensions(Data(table), Data(existing_table))
    /\ AboveThreshold(CalculateTableSimilarity(Data(table), Data(existing_table)))

\* the mutant of ReplacesExisting in which the candidate also wins a tie
ReplacesExistingOnTie(table, existing_table) == Accuracy(table) >= Accuracy(existing_table)

\* the mutant of ReplacesExisting in which the accepted table always stays
ReplacesExistingNever(table, existing_table) == FALSE

\* "Keep table with higher accuracy if available"
ReplacesExisting(table, existing_table) == Accuracy(table) > Accuracy(existing_table)

\* list.remove at position k
RemoveAt(s, k) == SubSeq(s, 1, k - 1) \o SubSeq(s, k + 1, Len(s))

\* the mutant of ProcessCandidate that puts a replacing candidate in the place of the
\* table it replaces
ProcessCandidateInPlace(unique, table) ==
    LET dups == {k \in 1..Len(unique) : IsDuplicateOf(table, unique[k])}
    IN IF dups = {}
       THEN [unique |-> Append(unique, table), is_duplicate |-> FALSE,
             existing |-> 0, replaced |-> FALSE]
       ELSE LET k == CHOOSE m \in dups : \A n \in dups : m <= n
            IN IF ReplacesExisting(table, unique[k])
               THEN [unique |-> [unique EXCEPT ![k] = table],
                     is_duplicate |-> TRUE, existing |-> k, replaced |-> TRUE]
               ELSE [unique |-> unique, is_duplicate |-> TRUE,
                     existing |-> k, replaced |-> FALSE]

\* one iteration of the outer loop: the accumulator afterwards and the iteration's locals
\* (existing is the position in unique of the table the inner loop stopped at, 0 if none)
ProcessCandidate(unique, table) ==
    LET dups == {k \in 1..Len(unique) : IsDuplicateOf(table, unique[k])}
    IN IF dups = {}
       THEN [unique |-> Append(unique, table), is_duplicate |-> FALSE,
             existing |-> 0, replaced |-> FALSE]
       ELSE LET k == CHOOSE m \in dups : \A n \in dups : m <= n
            IN IF ReplacesExisting(table, unique[k])
               THEN [unique |-> Append(RemoveAt(unique, k), table),
                     is_duplicate |-> TRUE, existing |-> k, replaced |-> TRUE]
               ELSE [unique |-> unique, is_duplicate |-> TRUE,
                     existing |-> k, replaced |-> FALSE]

\* "Re-index tables"
Reindex(unique) == [i \in 1..Len(unique) |-> [unique[i] EXCEPT !.table_index = i - 1]]

RECURSIVE DedupFrom(_, _)
DedupFrom(unique, tables) ==
    IF tables = <<>> THEN unique
    ELSE DedupFrom(ProcessCandidate(unique, Head(tables)).unique, Tail(tables))

\* the whole function on a list of tables
DeduplicateTables(tables) ==
    IF tables = <<>> THEN <<>> ELSE Reindex(DedupFrom(<<>>, tables))

(***************************************************************************)
(* _calculate_quality_metrics of DocxExtractor, PdfExtractor and           *)
(* ImageExtractor                                                          *)
(*                                                                         *)
(* A returned metric is held in thousandths, as round(value, 3) leaves it; *)
(* a table's 'accuracy' is the number the backend reported and its         *)
(* 'confidence' is held as a ratio.                                        *)
(***************************************************************************)
\* a value num / den with den > 0
Ratio(num, den) == <<num, den>>

\* the greatest common divisor of two numbers, none negative and not both 0
RECURSIVE GCD(_, _)
GCD(a, b) == IF b = 0 THEN a ELSE GCD(b, a % b)

\* the same value in lowest terms, for a value that is not negative
Reduced(value) ==
    Ratio(value[1] \div GCD(value[1], value[2]), value[2] \div GCD(value[1], value[2]))

\* the sum of a sequence of ratios, none negative
RECURSIVE RatioSum(_)
RatioSum(s) ==
    IF s = <<>> THEN Ratio(0, 1)
    ELSE LET rest == RatioSum(Tail(s))
         IN Reduced(Ratio(Head(s)[1] * rest[2] + rest[1] * Head(s)[2],
                          Head(s)[2] * rest[2]))

\* round(1000 * value) for a value num / den: the nearest integer; a tie is settled by the
\* binary value of the float, which the model does not hold: either neighbour
Rounded(value) ==
    LET num == 1000 * value[1]
        den == value[2]
        q == num \div den
        r == num % den
    IN IF 2 * r > den THEN {q + 1} ELSE IF 2 * r = den THEN {q, q + 1} ELSE {q}

\* the dictionaries a scorer can return for the exact metrics: each rounded to 3 decimals
RoundedMetrics(exact) ==
    {m \in [DOMAIN exact -> UNION {Rounded(exact[k]) : k \in DOMAIN exact}] :
        \A k \in DOMAIN exact : m[k] \in Rounded(exact[k])}

\* sum(1 for cell in row if cell.strip())
NonEmptyCells(row) == Cardinality({k \in 1..Len(row) : Strip(row[k]) # <<>>})

\* the rows after the first whose length differs from the first row's
InconsistentRows(table_data) ==
    IF table_data = <<>> THEN 0
    ELSE Cardinality({r \in 2..Len(table_data) : Len(table_data[r]) # Len(table_data[1])})

\* DocxExtractor._calculate_quality_metrics, before rounding
DocxQualityMetrics(tables_data) ==
    IF tables_data = <<>>
    THEN [accuracy_score |-> Ratio(0, 1), completeness |-> Ratio(0, 1),
          consistency |-> Ratio(0, 1)]
    ELSE LET n == Len(tables_data)
             total_cells == SumSeq([t \in 1..n |->
                 SumSeq([r \in 1..Len(tables_data[t].data) |->
                            Len(tables_data[t].data[r])])])
             empty_cells == total_cells - SumSeq([t \in 1..n |->
                 SumSeq([r \in 1..Len(tables_data[t].data) |->
                            NonEmptyCells(tables_data[t].data[r])])])
             inconsistent_columns ==
                 SumSeq([t \in 1..n |-> InconsistentRows(tables_data[t].data)])
             completeness == IF total_cells > 0
                             THEN Ratio(total_cells - empty_cells, total_cells)
                             ELSE Ratio(0, 1)
             consistency == Ratio(n - inconsistent_columns, n)
         IN [accuracy_score |->
                 Ratio(6 * completeness[1] * consistency[2]
                           + 4 * consistency[1] * completeness[2],
                       10 * completeness[2] * consistency[2]),
             completeness |-> completeness,
             consistency |-> consistency]

\* PdfExtractor._calculate_quality_metrics, before rounding
PdfQualityMetrics(tables_data, results) ==
    IF tables_data = <<>>
    THEN [accuracy_score |-> Ratio(0, 1), method_success_rate |-> Ratio(0, 1)]
    ELSE LET reporting == SelectSeq(tables_data, LAMBDA t : "accuracy" \in DOMAIN t)
             total_accuracy == SumSeq([t \in 1..Len(reporting) |-> reporting[t].accuracy])
             accuracy_count == Len(reporting)
             avg_accuracy == IF accuracy_count > 0 THEN Ratio(total_accuracy, accuracy_count)
                             ELSE Ratio(1, 2)
             successful_methods == Len(SelectSeq(results, LAMBDA success : success))
         IN [accuracy_score |->
                 IF avg_accuracy[1] > avg_accuracy[2] THEN Ratio(1, 1) ELSE avg_accuracy,
             method_success_rate |->
                 IF results = <<>> THEN Ratio(0, 1)
                 ELSE Ratio(successful_methods, Len(results))]

\* ImageExtractor._calculate_quality_metrics, before rounding
ImageQualityMetrics(tables_data) ==
    IF tables_data = <<>>
    THEN [accuracy_score |-> Ratio(0, 1), ocr_confidence |-> Ratio(0, 1)]
    ELSE LET n == Len(tables_data)
             confidences == RatioSum([t \in 1..n |->
                 IF "confidence" \in DOMAIN tables_data[t]
                 THEN tables_data[t].confidence ELSE Ratio(0, 1)])
             avg_confidence == Reduced(Ratio(confidences[1], confidences[2] * n))
             total_cells == SumSeq([t \in 1..n |->
                 tables_data[t].rows * tables_data[t].columns])
             non_empty_cells == SumSeq([t \in 1..n |->
                 SumSeq([r \in 1..Len(tables_data[t].data) |->
                            NonEmptyCells(tables_data[t].data[r])])])
             completeness == IF total_cells > 0 THEN Ratio(non_empty_cells, total_cells)
                             ELSE Ratio(0, 1)
         IN [accuracy_score |->
                 Ratio(7 * avg_confidence[1] * completeness[2]
                           + 3 * completeness[1] * avg_confidence[2],
                       10 * avg_confidence[2] * completeness[2]),
             ocr_confidence |-> avg_confidence,
             completeness |-> completeness]

(***************************************************************************)
(* PdfExtractor.extract_tables: the loop over the extraction methods, then *)
(* _deduplicate_tables one candidate at a time                             *)
(***************************************************************************)
\* all_tables.extend(method_result['tables']) with extraction_method set on each table;
\* id is the identity of the dict object (its position among all tables of the call)
Extend(tables, method_result, method_name) ==
    IF method_result.success /\ method_result.tables # <<>>
    THEN tables \o [k \in 1..Len(method_result.tables) |->
                       [id |-> Len(tables) + k, extraction_method |-> method_name]
                       @@ method_result.tables[k]]
    ELSE tables

NoLocals == [table |-> 0, is_duplicate |-> FALSE, existing |-> 0, replaced |-> FALSE]

InitPdf ==
    /\ pipeline = "pdf"
    /\ pc = "pdfplumber"
    /\ all_tables = <<>>
    /\ unique_tables = <<>>
    /\ idx = 1
    /\ last = NoLocals
    /\ ocr_data = <<>> /\ words = <<>> /\ rows = <<>>
    /\ current_row = <<>> /\ ocr_table = <<>>
    /\ cleaned_table = <<>> /\ processed_table = <<>>
    /\ raw_cell = <<>> /\ cleaned_cell = <<>>
    /\ scored_tables = <<>> /\ method_results = <<>> /\ quality_metrics = <<>>
    /\ warnings = <<>> /\ pdf_result = <<>>
    /\ extraction_result = <<>> /\ table_no = 0 /\ combined_data = <<>> /\ csv_result = <<>> /\ output_file = <<>> /\ response = <<>>
    /\ image_shape = <<>> /\ contours = <<>> /\ detection_raised = FALSE /\ table_regions = <<>> /\ region_no = 0 /\ full_text = <<>> /\ fallback_calls = 0 /\ image_tables = <<>> /\ image_warnings = <<>> /\ image_result = <<>>
    /\ table_info = <<>> /\ temp_file = "absent"

\* what an extraction method returns when its own try caught an exception
\* (lines 120-122, 163-165 and 202-204): {'success': False, 'error': str(e)}
MethodFailed == [success |-> FALSE, tables |-> <<>>]

\* the names of extraction_methods, in the order of the loop
MethodNames == <<"pdfplumber", "tabula", "camelot">>

\* One iteration of "for method_name, extract_func in extraction_methods".  The body of
\* every extract_func lies inside its own try/except Exception, so no exception reaches
\* the except branch of the loop (lines 58-60), the only place that appends to warnings.
RunPdfplumber ==
    /\ pipeline = "pdf" /\ pc = "pdfplumber"
    /\ \E method_result \in {MethodFailed} \cup
               {ExtractWithPdfplumber(page_tables) :
                    page_tables \in SeqsUpTo(PlumberRawTables, MaxTables - 2)} :
          /\ all_tables' = Extend(all_tables, method_result, "pdfplumber")
          /\ method_results' = Append(method_results, method_result.success)
    /\ pc' = "tabula"
    /\ UNCHANGED <<pipeline, unique_tables, idx, last, warnings, pdf_result, scored_tables,
                   quality_metrics, imageVars, csvVars, cellVars, convVars, extractVars>>

RunTabula ==
    /\ pipeline = "pdf" /\ pc = "tabula"
    /\ \E method_result \in {MethodFailed} \cup
               {ExtractWithTabula(dfs) :
                    dfs \in {d \in SeqsUpTo(TabulaFrames, MaxTables - 2) :
                                Len(all_tables) + Len(d) <= MaxTables}} :
          /\ all_tables' = Extend(all_tables, method_result, "tabula")
          /\ method_results' = Append(method_results, method_result.success)
    /\ pc' = "camelot"
    /\ UNCHANGED <<pipeline, unique_tables, idx, last, warnings, pdf_result, scored_tables,
                   quality_metrics, imageVars, csvVars, cellVars, convVars, extractVars>>

RunCamelot ==
    /\ pipeline = "pdf" /\ pc = "camelot"
    /\ \E method_result \in {MethodFailed} \cup
               {ExtractWithCamelot(tables) :
                    tables \in {t \in SeqsUpTo(CamelotTables, MaxTables - 2) :
                                   Len(all_tables) + Len(t) <= MaxTables}} :
          /\ all_tables' = Extend(all_tables, method_result, "camelot")
          /\ method_results' = Append(method_results, method_result.success)
    /\ pc' = "dedup"
    /\ UNCHANGED <<pipeline, unique_tables, idx, last, warnings, pdf_result, scored_tables,
                   quality_metrics, imageVars, csvVars, cellVars, convVars, extractVars>>

\* the body of "for table in tables"
DedupStep ==
    /\ pipeline \in {"pdf", "reconcile"} /\ pc = "dedup"
    /\ idx <= Len(all_tables)
    /\ LET r == ProcessCandidate(unique_tables, all_tables[idx])
       IN /\ unique_tables' = r.unique
          /\ last' = [table |-> all_tables[idx].id, is_duplicate |-> r.is_duplicate,
                      existing |-> IF r.existing = 0 THEN 0
                                   ELSE unique_tables[r.existing].id,
                      replaced |-> r.replaced]
    /\ idx' = idx + 1
    /\ UNCHANGED <<pipeline, pc, all_tables, warnings, pdf_result,
                   imageVars, csvVars, cellVars, scoreVars, convVars, extractVars>>

\* the loop is over: re-index and return
DedupReturn ==
    /\ pipeline \in {"pdf", "reconcile"} /\ pc = "dedup"
    /\ idx > Len(all_tables)
    /\ unique_tables' = Reindex(unique_tables)
    /\ pc' = "done"
    /\ UNCHANGED <<pipeline, all_tables, idx, last, warnings, pdf_result,
                   imageVars, csvVars, cellVars, scoreVars, convVars, extractVars>>

\* extract_tables after _deduplicate_tables: the quality metrics and the result (lines 65-82)
ExtractTablesReturn ==
    /\ pipeline = "pdf" /\ pc = "done"
    /\ quality_metrics' \in RoundedMetrics(PdfQualityMetrics(unique_tables, method_results))
    /\ pdf_result' = [success |-> TRUE, tables |-> unique_tables,
                      table_count |-> Len(unique_tables), warnings |-> warnings]
    /\ pc' = "returned"
    /\ UNCHANGED <<pipeline, all_tables, unique_tables, idx, last, warnings,
                   scored_tables, method_results, imageVars, csvVars, cellVars, convVars, extractVars>>

NextPdf ==
    \/ RunPdfplumber
    \/ RunTabula
    \/ RunCamelot
    \/ DedupStep
    \/ DedupReturn
    \/ ExtractTablesReturn

\* a PDF upload: PdfExtractor.extract_tables
SpecPdf == InitPdf /\ [][NextPdf]_vars

(***************************************************************************)
(* Reconciler: the claims                                                  *)
(***************************************************************************)
\* the ids of the tables in a list
Ids(tables) == {tables[k].id : k \in 1..Len(tables)}

\* the input table with this id
TableOf(id) == all_tables[id]

RowCount(g) == Len(g)
ColumnCount(g) == IF g = <<>> THEN 0 ELSE Len(g[1])

\* two non-empty grids of equal row and column count whose top-left
\* min(3, rows) x min(3, cols) blocks agree cell by cell after trimming and lowercasing
EqualCorners(g1, g2) ==
    /\ RowCount(g1) > 0 /\ ColumnCount(g1) > 0
    /\ RowCount(g1) = RowCount(g2) /\ ColumnCount(g1) = ColumnCount(g2)
    /\ \A i \in 1..Min(3, RowCount(g1)) : \A j \in 1..Min(3, ColumnCount(g1)) :
          Lower(Strip(g1[i][j])) = Lower(Strip(g2[i][j]))

\* C2: of two non-empty input grids with the same row and column count whose corner blocks
\* are equal after trimming and lowercasing, the Reconciler's output holds one, never both
\* (the formula is the "never both" half of the statement, which already fails)
C2_EqualCornersNeverBothRetained ==
    pc = "done" =>
        \A i, j \in 1..Len(all_tables) :
            (i < j /\ EqualCorners(all_tables[i].data, all_tables[j].data))
                => ~({i, j} \subseteq Ids(unique_tables))

\* C3: a candidate is judged a duplicate of an accepted grid only when both have the same
\* row count and the same column count, and a grid whose dimensions differ from those of
\* every other input grid is retained
C3_DifferentDimensionsNeverDuplicates ==
    /\ last.is_duplicate =>
          /\ RowCount(TableOf(last.table).data) = RowCount(TableOf(last.existing).data)
          /\ ColumnCount(TableOf(last.table).data) = ColumnCount(TableOf(last.existing).data)
    /\ pc = "done" =>
          \A i \in 1..Len(all_tables) :
              (\A j \in 1..Len(all_tables) :
                  j # i => \/ RowCount(all_tables[i].data) # RowCount(all_tables[j].data)
                           \/ ColumnCount(all_tables[i].data) # ColumnCount(all_tables[j].data))
                  => i \in Ids(unique_tables)

\* two retained grids of different column count whose common corner block agrees everywhere
C3_Witness ==
    /\ pc = "done"
    /\ \E a, b \in 1..Len(unique_tables) :
          LET g == unique_tables[a].data
              h == unique_tables[b].data
          IN /\ RowCount(g) = RowCount(h) /\ ColumnCount(g) < ColumnCount(h)
             /\ CalculateTableSimilarity(g, h).num = CalculateTableSimilarity(g, h).den

\* the three backends returned one 3 x 2 grid each, and the grids agree on every cell but one
ThreeGridsOneCellApart ==
    /\ Len(all_tables) = 3
    /\ {all_tables[k].extraction_method : k \in 1..3} = {"pdfplumber", "tabula", "camelot"}
    /\ \A k \in 1..3 : RowCount(all_tables[k].data) = 3 /\ ColumnCount(all_tables[k].data) = 2
    /\ \E cell \in (1..3) \X (1..2) :
          \A other \in ((1..3) \X (1..2)) \ {cell} : \A k, m \in 1..3 :
              all_tables[k].data[other[1]][other[2]] = all_tables[m].data[other[1]][other[2]]

\* C4: three 3 x 2 grids, one per backend, that differ in a single cell are reconciled to
\* exactly one grid, and no input grid has a higher accuracy than the retained one
C4_ThreeBackendsOneGrid ==
    (pc = "done" /\ ThreeGridsOneCellApart) =>
        /\ Len(unique_tables) = 1
        /\ \A k \in 1..3 : Accuracy(unique_tables[1]) >= Accuracy(all_tables[k])

\* the pdfplumber grid carries a typo, camelot reports the highest accuracy and is retained
C4_Witness ==
    /\ pc = "done" /\ ThreeGridsOneCellApart
    /\ all_tables[1].data # all_tables[3].data
    /\ Accuracy(all_tables[3]) = 90
    /\ Ids(unique_tables) = {3}

\* C5: after a candidate was judged a duplicate of an accepted grid, exactly one of the two
\* is in the accumulator: the candidate if its accuracy (0 when missing) is strictly higher,
\* otherwise the grid accepted earlier
C5_DuplicateKeepsHigherAccuracy ==
    last.is_duplicate =>
        IF Accuracy(TableOf(last.table)) > Accuracy(TableOf(last.existing))
        THEN last.table \in Ids(unique_tables) /\ last.existing \notin Ids(unique_tables)
        ELSE last.existing \in Ids(unique_tables) /\ last.table \notin Ids(unique_tables)

\* a tie between a camelot candidate reporting 0 and an accepted grid without accuracy
C5_Witness ==
    /\ last.is_duplicate
    /\ "accuracy" \in DOMAIN TableOf(last.table)
    /\ "accuracy" \notin DOMAIN TableOf(last.existing)
    /\ Accuracy(TableOf(last.table)) = Accuracy(TableOf(last.existing))
    /\ last.existing \in Ids(unique_tables)

\* the input tables in another order
Permuted(tables, p) == [k \in 1..Len(tables) |-> tables[p[k]]]

DistinctAccuracies(tables) ==
    \A i, j \in 1..Len(tables) : i # j => Accuracy(tables[i]) # Accuracy(tables[j])

\* being duplicates of each other is transitive among the tables
TransitiveDuplicates(tables) ==
    \A i, j, k \in 1..Len(tables) :
        (IsDuplicateOf(tables[i], tables[j]) /\ IsDuplicateOf(tables[j], tables[k]))
            => IsDuplicateOf(tables[i], tables[k])

\* C6 as stated: with pairwise distinct accuracies the retained set is the same for every
\* order of the input grids
C6_RetainedSetOrderIndependent ==
    (pc = "done" /\ DistinctAccuracies(all_tables)) =>
        \A p \in Permutations(1..Len(all_tables)) :
            Ids(DeduplicateTables(Permuted(all_tables, p))) = Ids(unique_tables)

\* C6 amended: with pairwise distinct accuracies, and being duplicates transitive among the
\* input grids, the retained set is the same for every order of the input grids
C6_RetainedSetOrderIndependentIfTransitive ==
    (pc = "done" /\ DistinctAccuracies(all_tables) /\ TransitiveDuplicates(all_tables)) =>
        \A p \in Permutations(1..Len(all_tables)) :
            Ids(DeduplicateTables(Permuted(all_tables, p))) = Ids(unique_tables)

\* three duplicates of distinct accuracy were reconciled to the best one
C6_Witness ==
    /\ pc = "done" /\ Len(all_tables) >= 3
    /\ DistinctAccuracies(all_tables) /\ TransitiveDuplicates(all_tables)
    /\ Len(unique_tables) < Len(all_tables)

(***************************************************************************)
(* ImageExtractor._parse_ocr_to_table                                      *)
(***************************************************************************)
\* "Filter low confidence words": the confidence a word must exceed
ConfidenceFloor == 30
\* row_threshold: "Pixels tolerance for same row"
RowThreshold == 20

\* one entry of pytesseract's parallel arrays text, conf, left, top; conf is a number with
\* a fractional part and is held in tenths
OcrEntry(text, conf, left, top) == [text |-> text, conf |-> conf, left |-> left, top |-> top]

\* int(conf): the fraction is cut off
IntConf(conf) == IF conf >= 0 THEN conf \div 10 ELSE -((-conf) \div 10)

\* the entries the OCR engine may report at position k: a legible word at one of four
\* heights and two offsets, the same word at the confidence floor and half a point above
\* it, or a blank
OcrEntries(k) ==
    { OcrEntry(<<"w">> \o IntStr(k), 900, left, top) : left \in {0, 5}, top \in {0, 20, 30, 41} }
    \cup { OcrEntry(<<"w">> \o IntStr(k), 10 * ConfidenceFloor, 0, 0),
           OcrEntry(<<"w">> \o IntStr(k), 10 * ConfidenceFloor + 5, 0, 0),
           OcrEntry(<<" ">>, 900, 0, 0) }

\* the OCR results of n entries
RECURSIVE OcrResults(_)
OcrResults(n) ==
    IF n = 0 THEN {<<>>}
    ELSE {Append(d, e) : d \in OcrResults(n - 1), e \in OcrEntries(n)}

\* list.sort(key=...): stable, by insertion
RECURSIVE InsertByKey(_, _, _)
InsertByKey(sorted, w, key) ==
    IF sorted = <<>> THEN <<w>>
    ELSE IF w[key] < Head(sorted)[key] THEN <<w>> \o sorted
         ELSE <<Head(sorted)>> \o InsertByKey(Tail(sorted), w, key)

RECURSIVE SortFrom(_, _, _)
SortFrom(sorted, s, key) ==
    IF s = <<>> THEN sorted
    ELSE SortFrom(InsertByKey(sorted, Head(s), key), Tail(s), key)

SortByKey(s, key) == SortFrom(<<>>, s, key)

\* "Extract words with positions and confidence"
RECURSIVE ExtractWords(_)
ExtractWords(data) ==
    IF data = <<>> THEN <<>>
    ELSE LET e == Head(data)
             word == Strip(e.text)
         IN IF IntConf(e.conf) > ConfidenceFloor /\ word # <<>>
            THEN <<[e EXCEPT !.text = word]>> \o ExtractWords(Tail(data))
            ELSE ExtractWords(Tail(data))

\* a row test against the top of the first word of the open row
InSameRowAsFirst(word, row) ==
    word.top - row[1].top <= RowThreshold /\ row[1].top - word.top <= RowThreshold

\* abs(word['top'] - avg_top) <= row_threshold, avg_top the mean top of the open row
InSameRow(word, row) ==
    LET total == SumSeq([k \in 1..Len(row) |-> row[k].top])
        diff == word.top * Len(row) - total
    IN (IF diff < 0 THEN -diff ELSE diff) <= RowThreshold * Len(row)

\* the mutant of NormalizeRows that leaves the rows as they are
NormalizeRowsNoPad(table) == table

\* "Normalize column count" of the OCR grid
NormalizeRows(table) ==
    LET max_cols == MaxSeq([i \in 1..Len(table) |-> Len(table[i])])
    IN [i \in 1..Len(table) |-> PadRow(table[i], max_cols)]

\* the mutant of RowTexts that leaves out the last word of every row
RowTextsWithoutLast(closed) ==
    [i \in 1..Len(closed) |-> [k \in 1..(Len(closed[i]) - 1) |-> closed[i][k].text]]

\* "Convert to table structure": the text of every word, row by row
RowTexts(closed) == [i \in 1..Len(closed) |-> [k \in 1..Len(closed[i]) |-> closed[i][k].text]]

InitImage ==
    /\ pipeline = "image"
    /\ pc = "words"
    /\ \E n \in 0..MaxTokens : ocr_data \in OcrResults(n)
    /\ words = <<>>
    /\ rows = <<>>
    /\ current_row = <<>>
    /\ ocr_table = <<>>
    /\ all_tables = <<>> /\ unique_tables = <<>> /\ idx = 1 /\ last = NoLocals
    /\ cleaned_table = <<>> /\ processed_table = <<>>
    /\ raw_cell = <<>> /\ cleaned_cell = <<>>
    /\ scored_tables = <<>> /\ method_results = <<>> /\ quality_metrics = <<>>
    /\ warnings = <<>> /\ pdf_result = <<>>
    /\ extraction_result = <<>> /\ table_no = 0 /\ combined_data = <<>> /\ csv_result = <<>> /\ output_file = <<>> /\ response = <<>>
    /\ image_shape = <<>> /\ contours = <<>> /\ detection_raised = FALSE /\ table_regions = <<>> /\ region_no = 0 /\ full_text = <<>> /\ fallback_calls = 0 /\ image_tables = <<>> /\ image_warnings = <<>> /\ image_result = <<>>
    /\ table_info = <<>> /\ temp_file = "absent"

\* lines 289-308: filter the words, return [] if none is left, else sort them by top
FilterAndSortWords ==
    /\ pipeline = "image" /\ pc = "words"
    /\ LET kept == ExtractWords(ocr_data)
       IN IF kept = <<>>
          THEN words' = <<>> /\ pc' = "done"
          ELSE words' = SortByKey(kept, "top") /\ pc' = "cluster"
    /\ UNCHANGED <<pipeline, ocr_data, rows, current_row, ocr_table, pdfVars, csvVars, cellVars, scoreVars, convVars, extractVars>>

\* the body of "for word in words"; words holds the sorted words not yet visited
ClusterWord ==
    /\ pipeline = "image" /\ pc = "cluster"
    /\ words # <<>>
    /\ LET word == Head(words)
       IN IF current_row = <<>>
          THEN current_row' = <<word>> /\ rows' = rows
          ELSE IF InSameRow(word, current_row)
               THEN current_row' = Append(current_row, word) /\ rows' = rows
               ELSE /\ rows' = Append(rows, SortByKey(current_row, "left"))
                    /\ current_row' = <<word>>
    /\ words' = Tail(words)
    /\ UNCHANGED <<pipeline, pc, ocr_data, ocr_table, pdfVars, csvVars, cellVars, scoreVars, convVars, extractVars>>

\* lines 328-346: close the last row, take the texts, pad the rows and return
CloseLastRowAndReturn ==
    /\ pipeline = "image" /\ pc = "cluster"
    /\ words = <<>>
    /\ LET closed == IF current_row # <<>>
                     THEN Append(rows, SortByKey(current_row, "left"))
                     ELSE rows
       IN /\ rows' = closed
          /\ ocr_table' = NormalizeRows(RowTexts(closed))
    /\ current_row' = <<>>
    /\ pc' = "done"
    /\ UNCHANGED <<pipeline, ocr_data, words, pdfVars, csvVars, cellVars, scoreVars, convVars, extractVars>>

NextImage == FilterAndSortWords \/ ClusterWord \/ CloseLastRowAndReturn

\* an image upload: one call of _parse_ocr_to_table
SpecImage == InitImage /\ [][NextImage]_vars

(***************************************************************************)
(* DataProcessor._has_headers                                              *)
(***************************************************************************)
\* \w of a Python regular expression
WordChars == UpperChars \cup LowerChars \cup DigitChars \cup {"_"}

\* re.match(r'^[\d.,%-]+$', text)
NumericLooking(text) ==
    /\ text # <<>>
    /\ \A k \in 1..Len(text) : text[k] \in DigitChars \cup {".", ",", "%", "-"}

\* the mutant of HeaderIndicators without the comparison with the second row
HeaderIndicatorsFirstRowOnly(first_row, second_row) ==
    Cardinality({i \in 1..Len(first_row) :
                    first_row[i] # <<>> /\ ~NumericLooking(Strip(first_row[i]))})

\* header_indicators after the loop over the first row
HeaderIndicators(first_row, second_row) ==
    SumSeq([i \in 1..Len(first_row) |->
        IF first_row[i] = <<>> THEN 0
        ELSE (IF ~NumericLooking(Strip(first_row[i])) THEN 1 ELSE 0)
             + (IF /\ i <= Len(second_row) /\ second_row[i] # <<>>
                   /\ ~NumericLooking(Strip(first_row[i]))
                   /\ NumericLooking(Strip(second_row[i]))
                THEN 1 ELSE 0)])

\* the mutant of HasHeaders without the early return for grids of fewer than 2 rows
HasHeadersOfAnyRowCount(table_data) ==
    2 * HeaderIndicators(table_data[1], IF Len(table_data) < 2 THEN <<>> ELSE table_data[2])
        > Len(table_data[1])

\* the mutant of HasHeaders that accepts an indicator count of exactly half the columns
HasHeadersAtHalf(table_data) ==
    IF Len(table_data) < 2 THEN FALSE
    ELSE 2 * HeaderIndicators(table_data[1], table_data[2]) >= Len(table_data[1])

\* header_indicators > len(first_row) * 0.5
HasHeaders(table_data) ==
    IF Len(table_data) < 2 THEN FALSE
    ELSE 2 * HeaderIndicators(table_data[1], table_data[2]) > Len(table_data[1])

(***************************************************************************)
(* DataProcessor._process_table_headers                                    *)
(***************************************************************************)
\* f'Column_{i + 1}' for the 0-based index i, here given 1-based
ColumnName(i) == <<"C", "o", "l", "u", "m", "n", "_">> \o IntStr(i)

\* re.sub(r'[^\w\s-]', '', text)
RECURSIVE RemoveSpecial(_)
RemoveSpecial(text) ==
    IF text = <<>> THEN <<>>
    ELSE IF Head(text) \in WordChars \cup WhitespaceChars \cup {"-"}
         THEN <<Head(text)>> \o RemoveSpecial(Tail(text))
         ELSE RemoveSpecial(Tail(text))

\* re.sub(r'\s+', '_', text)
RECURSIVE UnderscoreSpaces(_)
UnderscoreSpaces(text) ==
    IF text = <<>> THEN <<>>
    ELSE IF Head(text) \in WhitespaceChars
         THEN <<"_">> \o UnderscoreSpaces(LStrip(text))
         ELSE <<Head(text)>> \o UnderscoreSpaces(Tail(text))

\* the mutant of CleanHeader that keeps a header emptied by the cleaning
CleanHeaderKeepsEmpty(header, i) ==
    IF header = <<>> \/ Strip(header) = <<>> THEN ColumnName(i)
    ELSE UnderscoreSpaces(RemoveSpecial(Strip(header)))

\* the mutant of CleanHeader whose cleaning removes the underscore as well
CleanHeaderDropsUnderscore(header, i) ==
    IF header = <<>> \/ Strip(header) = <<>> THEN ColumnName(i)
    ELSE LET clean_header == SelectSeq(UnderscoreSpaces(RemoveSpecial(Strip(header))),
                                       LAMBDA c : c # "_")
         IN IF clean_header # <<>> THEN clean_header ELSE ColumnName(i)

\* "Clean up headers": one header of the first row, i its 1-based position
CleanHeader(header, i) ==
    IF header = <<>> \/ Strip(header) = <<>> THEN ColumnName(i)
    ELSE LET clean_header == UnderscoreSpaces(RemoveSpecial(Strip(header)))
         IN IF clean_header # <<>> THEN clean_header ELSE ColumnName(i)

\* "Ensure unique headers": header_counts is a function from the headers seen to their count
RECURSIVE UniqueFrom(_, _, _)
UniqueFrom(cleaned_headers, header_counts, unique_headers) ==
    IF cleaned_headers = <<>> THEN unique_headers
    ELSE LET header == Head(cleaned_headers)
         IN IF header \in DOMAIN header_counts
            THEN LET n == header_counts[header] + 1
                 IN UniqueFrom(Tail(cleaned_headers),
                               [header_counts EXCEPT ![header] = n],
                               Append(unique_headers, header \o <<"_">> \o IntStr(n)))
            ELSE UniqueFrom(Tail(cleaned_headers),
                            (header :> 0) @@ header_counts,
                            Append(unique_headers, header))

UniqueHeaders(cleaned_headers) == UniqueFrom(cleaned_headers, <<>>, <<>>)

\* the mutant of GenericHeaders that returns the table without a header row
GenericHeadersMissing(table_data) == table_data

\* "Add generic headers if none detected"
GenericHeaders(table_data) ==
    <<[i \in 1..Len(table_data[1]) |-> ColumnName(i)]>> \o table_data

ProcessTableHeaders(table_data) ==
    IF table_data = <<>> THEN <<>>
    ELSE IF HasHeaders(table_data)
         THEN LET headers == table_data[1]
                  cleaned_headers == [i \in 1..Len(headers) |-> CleanHeader(headers[i], i)]
              IN <<UniqueHeaders(cleaned_headers)>> \o Tail(table_data)
         ELSE GenericHeaders(table_data)

(***************************************************************************)
(* DataProcessor.convert_to_csv: header processing of one cleaned table    *)
(***************************************************************************)
\* the texts of a first row, as _clean_cell_content leaves them
HeaderTexts ==
    { <<>>, <<"A">>, <<"A", "_", "1">>, <<"A", " ", "1">>, <<"1">>, <<"$">> }

\* _clean_table_data keeps only rows with some content
HasContent(row) == \E k \in 1..Len(row) : row[k] # <<>>

\* the second rows of k cells (a cell is blank, a number or a word), one for each number
\* of numeric cells: none (all words), the first cell only (blanks after it), the first
\* two (words after them), all but the first (a word there), all of them
SecondRows(k) ==
    { [i \in 1..k |-> <<"x">>],
      [i \in 1..k |-> IF i = 1 THEN <<"1">> ELSE <<>>],
      [i \in 1..k |-> IF i <= 2 THEN <<"1">> ELSE <<"x">>],
      [i \in 1..k |-> IF i = 1 THEN <<"x">> ELSE <<"1">>],
      [i \in 1..k |-> <<"1">>] }

\* the cleaned grids of k columns: any first row with some content, alone, over one of the
\* second rows, or over one of them and a third row of numbers
CleanedGrids(k) ==
    LET firsts == {r \in [1..k -> HeaderTexts] : HasContent(r)}
        third == [i \in 1..k |-> <<"2">>]
    IN {<<f>> : f \in firsts}
       \cup {<<f, d>> : f \in firsts, d \in SecondRows(k)}
       \cup {<<f, d, third>> : f \in firsts, d \in SecondRows(k)}

InitCsv ==
    /\ pipeline = "csv"
    /\ pc = "headers"
    /\ \E k \in 1..MaxCols : cleaned_table \in CleanedGrids(k)
    /\ processed_table = <<>>
    /\ all_tables = <<>> /\ unique_tables = <<>> /\ idx = 1 /\ last = NoLocals
    /\ ocr_data = <<>> /\ words = <<>> /\ rows = <<>>
    /\ current_row = <<>> /\ ocr_table = <<>>
    /\ raw_cell = <<>> /\ cleaned_cell = <<>>
    /\ scored_tables = <<>> /\ method_results = <<>> /\ quality_metrics = <<>>
    /\ warnings = <<>> /\ pdf_result = <<>>
    /\ extraction_result = <<>> /\ table_no = 0 /\ combined_data = <<>> /\ csv_result = <<>> /\ output_file = <<>> /\ response = <<>>
    /\ image_shape = <<>> /\ contours = <<>> /\ detection_raised = FALSE /\ table_regions = <<>> /\ region_no = 0 /\ full_text = <<>> /\ fallback_calls = 0 /\ image_tables = <<>> /\ image_warnings = <<>> /\ image_result = <<>>
    /\ table_info = <<>> /\ temp_file = "absent"

\* processed_table = self._process_table_headers(cleaned_table)
RunProcessTableHeaders ==
    /\ pipeline = "csv" /\ pc = "headers"
    /\ processed_table' = ProcessTableHeaders(cleaned_table)
    /\ pc' = "processed"
    /\ UNCHANGED <<pipeline, cleaned_table, pdfVars, imageVars, cellVars, scoreVars, convVars, extractVars>>

\* the emitted grid is handed to header processing once more
RunProcessTableHeadersAgain ==
    /\ pipeline = "csv" /\ pc = "processed"
    /\ cleaned_table' = processed_table
    /\ processed_table' = ProcessTableHeaders(processed_table)
    /\ pc' = "reprocessed"
    /\ UNCHANGED <<pipeline, pdfVars, imageVars, cellVars, scoreVars, convVars, extractVars>>

NextCsv == RunProcessTableHeaders \/ RunProcessTableHeadersAgain

\* header processing of one cleaned table of a conversion
SpecCsv == InitCsv /\ [][NextCsv]_vars

(***************************************************************************)
(* DataProcessor._normalize_numeric_data and _clean_cell_content           *)
(*                                                                         *)
(* A character of a cell is one string; "NUL" stands for '\x00', "BOM" for *)
(* '\ufeff' and "EUR" for one of the non-ASCII currency signs.  Numerals   *)
(* are decimal: the texts of the model hold no exponent, 'inf' or 'nan'.   *)
(***************************************************************************)
\* the characters removed by re.sub of line 190: currency signs and the comma
CurrencySymbols == {"$", "EUR", ","}

\* the characters of a text
Chars(s) == {s[k] : k \in 1..Len(s)}

\* s with every character of S removed
RemoveAll(s, S) == SelectSeq(s, LAMBDA c : c \notin S)

\* a replacement that leaves the text as it is
ReplaceNothing(s, a, b) == s

\* str.replace(a, b) for a character a and a text b
RECURSIVE Replace(_, _, _)
Replace(s, a, b) ==
    IF s = <<>> THEN <<>>
    ELSE (IF Head(s) = a THEN b ELSE <<Head(s)>>) \o Replace(Tail(s), a, b)

RECURSIVE Pow10(_)
Pow10(k) == IF k = 0 THEN 1 ELSE 10 * Pow10(k - 1)

\* the value of a digit
DigitValue(c) == CHOOSE d \in 0..9 : IntStr(d) = <<c>>

\* the value of a text of digits
RECURSIVE DigitsValue(_)
DigitsValue(s) ==
    IF s = <<>> THEN 0
    ELSE 10 * DigitsValue(SubSeq(s, 1, Len(s) - 1)) + DigitValue(s[Len(s)])

\* a numeral without its sign, and whether the sign is '-'
Unsigned(t) == IF t # <<>> /\ Head(t) \in {"+", "-"} THEN Tail(t) ELSE t
Negative(t) == t # <<>> /\ Head(t) = "-"

\* int(s): surrounding whitespace and a sign are accepted; ok is FALSE for ValueError
ParseInt(s) ==
    LET body == Unsigned(Strip(s))
    IN IF body # <<>> /\ Chars(body) \subseteq DigitChars
       THEN [ok |-> TRUE, neg |-> Negative(Strip(s)), n |-> DigitsValue(body)]
       ELSE [ok |-> FALSE, neg |-> FALSE, n |-> 0]

\* float(s) for a decimal numeral: the value is (-)n / 10^f; ok is FALSE for ValueError
ParseFloat(s) ==
    LET body == Unsigned(Strip(s))
        digits == RemoveAll(body, {"."})
        points == Len(body) - Len(digits)
        point == IF points = 0 THEN Len(body) + 1
                 ELSE CHOOSE k \in 1..Len(body) : body[k] = "."
    IN IF digits # <<>> /\ Chars(digits) \subseteq DigitChars /\ points <= 1
       THEN [ok |-> TRUE, neg |-> Negative(Strip(s)), n |-> DigitsValue(digits),
             f |-> IF points = 0 THEN 0 ELSE Len(body) - point]
       ELSE [ok |-> FALSE, neg |-> FALSE, n |-> 0, f |-> 0]

\* str(i) for an integer of sign neg and magnitude n
IntString(neg, n) == IF neg /\ n # 0 THEN <<"-">> \o IntStr(n) ELSE IntStr(n)

RECURSIVE StripTrailingZeros(_)
StripTrailingZeros(digits) ==
    IF Len(digits) > 1 /\ digits[Len(digits)] = "0"
    THEN StripTrailingZeros(SubSeq(digits, 1, Len(digits) - 1))
    ELSE digits

Zeros(k) == [i \in 1..k |-> "0"]

\* positional notation of the significant digits, the first of weight 10^x;
\* whole is what follows a value without fractional digits ('' for %g, '.0' for repr)
FixedNotation(digits, x, whole) ==
    IF x < 0 THEN <<"0", ".">> \o Zeros(-x - 1) \o digits
    ELSE IF Len(digits) <= x + 1 THEN digits \o Zeros(x + 1 - Len(digits)) \o whole
         ELSE SubSeq(digits, 1, x + 1) \o <<".">> \o SubSeq(digits, x + 2, Len(digits))

\* exponent notation: d[.ddd]e+XX
ExponentNotation(digits, x) ==
    LET e == IntStr(IF x < 0 THEN -x ELSE x)
    IN <<Head(digits)>> \o (IF Len(digits) > 1 THEN <<".">> \o Tail(digits) ELSE <<>>)
       \o <<"e", IF x < 0 THEN "-" ELSE "+">> \o (IF Len(e) < 2 THEN <<"0">> \o e ELSE e)

\* f"{value:.6g}" for the value (-)n / 10^f with n > 0: six significant digits, a tie
\* rounded to even, trailing zeros dropped
FormatG6(neg, n, f) ==
    LET d == Len(IntStr(n))
        unit == IF d > 6 THEN Pow10(d - 6) ELSE 1
        q == n \div unit
        r == n % unit
        \* a tie is settled by the binary value of the float: to even when the numeral
        \* is a dyadic fraction such as 123456.5, which the ties of the model's cells are
        up == 2 * r > unit \/ (2 * r = unit /\ q % 2 = 1)
        m == IF up THEN q + 1 ELSE q
        carry == d > 6 /\ m = 1000000
        x == d - 1 - f + (IF carry THEN 1 ELSE 0)
        digits == StripTrailingZeros(IntStr(IF carry THEN 100000 ELSE m))
    IN (IF neg THEN <<"-">> ELSE <<>>)
       \o (IF x < -4 \/ x >= 6 THEN ExponentNotation(digits, x)
           ELSE FixedNotation(digits, x, <<>>))

\* str(value) of the float (-)n / 10^f, a numeral of at most 15 significant digits
FloatRepr(neg, n, f) ==
    LET digits == StripTrailingZeros(IntStr(n))
        x == Len(IntStr(n)) - 1 - f
    IN (IF neg THEN <<"-">> ELSE <<>>)
       \o (IF n = 0 THEN <<"0", ".", "0">>
           ELSE IF x < -4 \/ x >= 16 THEN ExponentNotation(digits, x)
           ELSE FixedNotation(digits, x, <<".", "0">>))

\* the numeral as it stands once the currency signs and commas are removed
NormalizeNumericDataNoFormat(cell) == RemoveAll(cell, CurrencySymbols)

\* _normalize_numeric_data
NormalizeNumericData(cell) ==
    IF cell = <<>> THEN cell
    ELSE LET numeric_cell == RemoveAll(cell, CurrencySymbols)
             percent == ParseFloat(Strip(RemoveAll(numeric_cell, {"%"})))
             float_value == ParseFloat(numeric_cell)
             int_value == ParseInt(numeric_cell)
         IN IF "%" \in Chars(cell) /\ percent.ok
            THEN FloatRepr(percent.neg, percent.n, percent.f) \o <<"%">>
            ELSE IF "." \in Chars(numeric_cell)
                 THEN IF ~float_value.ok THEN cell
                      ELSE IF float_value.n % Pow10(float_value.f) = 0
                           THEN IntString(float_value.neg,
                                          float_value.n \div Pow10(float_value.f))
                           ELSE FormatG6(float_value.neg, float_value.n, float_value.f)
                 ELSE IF int_value.ok THEN IntString(int_value.neg, int_value.n)
                      ELSE cell

\* _clean_cell_content
CleanCellContent(cell) ==
    IF cell = <<>> THEN <<>>
    ELSE LET spaced == JoinSplit(Str(cell))
             cleared == Replace(RemoveAll(spaced, {"NUL", "BOM"}), "\r", <<" ">>)
             quoted == Replace(cleared, "\"", <<"\"", "\"">>)
         IN Strip(NormalizeNumericData(quoted))

(***************************************************************************)
(* DataProcessor._clean_table_data: the cleaning of one cell               *)
(***************************************************************************)
\* the characters of the short cells: digits, point, signs, currency, comma, percent,
\* a letter, a space, a quote and a null byte
CellAlphabet == {"0", "1", "5", ".", "+", "-", "$", ",", "%", "a", " ", "\"", "NUL"}

\* longer cells: amounts, numerals of more than six digits, a tie, small and large
\* values, a percentage, text with currency signs, control characters and quotes
LongCells ==
    { <<"$", "1", ",", "2", "3", "4", ".", "0", "0">>,
      <<"1", ".", "2", "3", "4", "5", "6", "7">>,
      <<"1", "2", "3", "4", "5", "6", ".", "5">>,
      <<"1", "2", "3", "4", "5", "6", "7", ".", "5">>,
      <<"0", ".", "0", "0", "0", "0", "1">>,
      <<"-", "0", ".", "5", "0">>,
      <<"-", "0", "0", "7", ".", "0">>,
      <<"1", "2", ".", "5", "0", "%">>,
      <<"EUR", "1", ",", "0", "0", "0">>,
      <<"a", ",", " ", "$", "b">>,
      <<"BOM", "a">>,
      <<"a", " ", "NUL", " ", "b">>,
      <<"\t", "1", ".", "5", "0", "\r">>,
      <<"s", "a", "y", " ", "\"", "a", "\"">> }

InitCell ==
    /\ pipeline = "cell"
    /\ pc = "clean"
    /\ raw_cell \in SeqsUpTo(CellAlphabet, MaxChars) \cup LongCells
    /\ cleaned_cell = <<>>
    /\ all_tables = <<>> /\ unique_tables = <<>> /\ idx = 1 /\ last = NoLocals
    /\ ocr_data = <<>> /\ words = <<>> /\ rows = <<>>
    /\ current_row = <<>> /\ ocr_table = <<>>
    /\ cleaned_table = <<>> /\ processed_table = <<>>
    /\ scored_tables = <<>> /\ method_results = <<>> /\ quality_metrics = <<>>
    /\ warnings = <<>> /\ pdf_result = <<>>
    /\ extraction_result = <<>> /\ table_no = 0 /\ combined_data = <<>> /\ csv_result = <<>> /\ output_file = <<>> /\ response = <<>>
    /\ image_shape = <<>> /\ contours = <<>> /\ detection_raised = FALSE /\ table_regions = <<>> /\ region_no = 0 /\ full_text = <<>> /\ fallback_calls = 0 /\ image_tables = <<>> /\ image_warnings = <<>> /\ image_result = <<>>
    /\ table_info = <<>> /\ temp_file = "absent"

\* cleaned_cell = self._clean_cell_content(cell)
RunCleanCellContent ==
    /\ pipeline = "cell" /\ pc = "clean"
    /\ cleaned_cell' = CleanCellContent(raw_cell)
    /\ pc' = "cleaned"
    /\ UNCHANGED <<pipeline, raw_cell, pdfVars, imageVars, csvVars, scoreVars, convVars, extractVars>>

NextCell == RunCleanCellContent

\* the cleaning of one cell of a table
SpecCell == InitCell /\ [][NextCell]_vars

(***************************************************************************)
(* The inputs and the steps of the quality scorers                         *)
(***************************************************************************)
\* grids handed to a scorer: full, with blank cells, with later rows longer or shorter
\* than the first, and without rows
ScoredGrids ==
    { << <<<<"a">>, <<"1">>>>, <<<<"b">>, <<"2">>>> >>,
      << <<<<"a">>, <<>>>>, <<<<" ">>, <<"2">>>> >>,
      << <<<<"a">>>>, <<<<"b">>, <<"c">>>>, <<<<"d">>, <<"e">>>> >>,
      << <<<<"a">>, <<"b">>>>, <<<<"c">>>> >>,
      <<>> }

\* the accuracies a PDF table reports: camelot's percentage, also below 0 or within [0, 1]
ScoredAccuracies == {-5, 0, 1, 90}

\* the confidences an image table carries: the fallback's 0.5 and an OCR mean
ScoredConfidences == {Ratio(50, 100), Ratio(87, 100)}

\* what varies between the tables of one extractor
DocxChoices == [data : ScoredGrids]
PdfChoices ==
    LET grids == {g \in ScoredGrids : g # <<>> /\ \A r \in 1..Len(g) : Len(g[r]) = 2}
    IN [data : grids, accuracy : ScoredAccuracies] \cup [data : grids]
ImageChoices ==
    [data : ScoredGrids \ {<<>>}, confidence : ScoredConfidences]
        \cup [data : ScoredGrids \ {<<>>}]

\* the table dictionaries of an extractor: table_index, rows and columns as it sets them
TablesOf(choices) ==
    [i \in 1..Len(choices) |->
        choices[i] @@ [table_index |-> i - 1, rows |-> Len(choices[i].data),
                       columns |-> IF choices[i].data = <<>> THEN 0
                                   ELSE Len(choices[i].data[1])]]

InitScore ==
    /\ pipeline \in {"score_docx", "score_pdf", "score_image"}
    /\ pc = "score"
    /\ scored_tables \in
           {TablesOf(c) : c \in SeqsUpTo(CASE pipeline = "score_docx" -> DocxChoices
                                           [] pipeline = "score_pdf" -> PdfChoices
                                           [] OTHER -> ImageChoices, MaxScored)}
    /\ method_results \in IF pipeline = "score_pdf"
                          THEN {<<TRUE, TRUE, TRUE>>, <<TRUE, FALSE, TRUE>>}
                          ELSE {<<>>}
    /\ quality_metrics = <<>>
    /\ all_tables = <<>> /\ unique_tables = <<>> /\ idx = 1 /\ last = NoLocals
    /\ ocr_data = <<>> /\ words = <<>> /\ rows = <<>>
    /\ current_row = <<>> /\ ocr_table = <<>>
    /\ cleaned_table = <<>> /\ processed_table = <<>>
    /\ raw_cell = <<>> /\ cleaned_cell = <<>>
    /\ warnings = <<>> /\ pdf_result = <<>>
    /\ extraction_result = <<>> /\ table_no = 0 /\ combined_data = <<>> /\ csv_result = <<>> /\ output_file = <<>> /\ response = <<>>
    /\ image_shape = <<>> /\ contours = <<>> /\ detection_raised = FALSE /\ table_regions = <<>> /\ region_no = 0 /\ full_text = <<>> /\ fallback_calls = 0 /\ image_tables = <<>> /\ image_warnings = <<>> /\ image_result = <<>>
    /\ table_info = <<>> /\ temp_file = "absent"

\* quality_metrics = self._calculate_quality_metrics(tables_data) of DocxExtractor
DocxCalculateQualityMetrics ==
    /\ pipeline = "score_docx" /\ pc = "score"
    /\ quality_metrics' \in RoundedMetrics(DocxQualityMetrics(scored_tables))
    /\ pc' = "scored"
    /\ UNCHANGED <<pipeline, scored_tables, method_results,
                   pdfVars, imageVars, csvVars, cellVars, convVars, extractVars>>

\* quality_metrics = self._calculate_quality_metrics(unique_tables, extraction_results)
PdfCalculateQualityMetrics ==
    /\ pipeline = "score_pdf" /\ pc = "score"
    /\ quality_metrics' \in RoundedMetrics(PdfQualityMetrics(scored_tables, method_results))
    /\ pc' = "scored"
    /\ UNCHANGED <<pipeline, scored_tables, method_results,
                   pdfVars, imageVars, csvVars, cellVars, convVars, extractVars>>

\* quality_metrics = self._calculate_quality_metrics(tables_data, image)
ImageCalculateQualityMetrics ==
    /\ pipeline = "score_image" /\ pc = "score"
    /\ quality_metrics' \in RoundedMetrics(ImageQualityMetrics(scored_tables))
    /\ pc' = "scored"
    /\ UNCHANGED <<pipeline, scored_tables, method_results,
                   pdfVars, imageVars, csvVars, cellVars, convVars, extractVars>>

NextScore ==
    \/ DocxCalculateQualityMetrics
    \/ PdfCalculateQualityMetrics
    \/ ImageCalculateQualityMetrics

\* the scoring of the tables of one extraction
SpecScore == InitScore /\ [][NextScore]_vars

(***************************************************************************)
(* DataProcessor._clean_table_data and convert_to_csv, and convert_file of *)
(* src/app.py from the extraction result on                                *)
(***************************************************************************)
\* a cleaning that leaves the numerals of the cells as they stand
RECURSIVE CleanedDataWithoutNormalizing(_)
CleanedDataWithoutNormalizing(table_data) ==
    IF table_data = <<>> THEN <<>>
    ELSE LET row == Head(table_data)
             cleaned_row == [k \in 1..Len(row) |-> Strip(JoinSplit(row[k]))]
         IN IF row # <<>> /\ \E k \in 1..Len(row) : Strip(cleaned_row[k]) # <<>>
            THEN <<cleaned_row>> \o CleanedDataWithoutNormalizing(Tail(table_data))
            ELSE CleanedDataWithoutNormalizing(Tail(table_data))

\* a cleaning that keeps the rows without content
RECURSIVE CleanedDataKeepingBlankRows(_)
CleanedDataKeepingBlankRows(table_data) ==
    IF table_data = <<>> THEN <<>>
    ELSE <<[k \in 1..Len(Head(table_data)) |-> CleanCellContent(Head(table_data)[k])]>>
             \o CleanedDataKeepingBlankRows(Tail(table_data))

\* the rows of table_data that are not empty lists, every cell cleaned, rows without
\* content dropped
RECURSIVE CleanedData(_)
CleanedData(table_data) ==
    IF table_data = <<>> THEN <<>>
    ELSE LET row == Head(table_data)
             cleaned_row == [k \in 1..Len(row) |-> CleanCellContent(row[k])]
         IN IF row # <<>> /\ \E k \in 1..Len(row) : Strip(cleaned_row[k]) # <<>>
            THEN <<cleaned_row>> \o CleanedData(Tail(table_data))
            ELSE CleanedData(Tail(table_data))

\* DataProcessor._clean_table_data: the cleaned rows, padded to the longest
DataProcessorCleanTableData(table_data) ==
    LET cleaned_data == CleanedData(table_data)
        max_columns == MaxSeq([r \in 1..Len(cleaned_data) |-> Len(cleaned_data[r])])
    IN [r \in 1..Len(cleaned_data) |-> PadRow(cleaned_data[r], max_columns)]

\* the 'data' of the tables an extractor hands over: a first row of currency amounts, of
\* names, of a thousands-separated number and a padded name, rows of differing length,
\* cells that clean to nothing, a cell with a quote, and no rows
ExtractedGrids ==
    { << <<<<"$", "1", "0", "0">>, <<"$", "2", "0", "0">>>>, <<<<"1">>, <<"2">>>> >>,
      << <<<<"N", "a", "m", "e">>, <<"A", "g", "e">>>>, <<<<"B", "o", "b">>, <<"3", "0">>>> >>,
      << <<<<"1", ",", "0", "0", "0">>, <<" ", "x", " ">>>>, <<<<"7">>, <<"0", ".", "5", "0">>>> >>,
      << <<<<"a">>>>, <<<<"b">>, <<"2">>>> >>,
      << <<<<" ">>, <<>>>>, <<<<"NUL">>>> >>,
      << <<<<"N">>, <<"q">>>>, <<<<"1">>, <<"a", "\"">>>> >>,
      <<>> }

\* what an extractor's extract_tables returns: a failure with its message, or the tables
ExtractionResults ==
    {[success |-> FALSE, message |-> "Failed to extract data"]}
        \cup {[success |-> TRUE, table_count |-> Len(t), tables |-> t] :
                 t \in SeqsUpTo([data : ExtractedGrids], MaxExtracted)}

\* csv.writer with QUOTE_MINIMAL: a field is quoted when it holds the delimiter, the quote
\* character or a character of the line terminator
NeedsQuoting(field) == \E k \in 1..Len(field) : field[k] \in {",", "\"", "\n"}

\* one field as csv.writer writes it: quoted with its quotes doubled if it needs quoting,
\* and "" for the empty field of a row of one field
WriteField(field, alone) ==
    IF NeedsQuoting(field) THEN <<"\"">> \o Replace(field, "\"", <<"\"", "\"">>) \o <<"\"">>
    ELSE IF field = <<>> /\ alone THEN <<"\"", "\"">>
    ELSE field

\* the fields of a row from field k on, separated by commas
RECURSIVE WriteFieldsFrom(_, _)
WriteFieldsFrom(row, k) ==
    IF k > Len(row) THEN <<>>
    ELSE (IF k > 1 THEN <<",">> ELSE <<>>) \o WriteField(row[k], Len(row) = 1)
             \o WriteFieldsFrom(row, k + 1)

\* writer.writerow(row) with lineterminator='\n'
WriteRow(row) == WriteFieldsFrom(row, 1) \o <<"\n">>

\* DataProcessor._generate_csv_content: the text of the CSV
RECURSIVE GenerateCsvContent(_)
GenerateCsvContent(table_data) ==
    IF table_data = <<>> THEN <<>>
    ELSE WriteRow(Head(table_data)) \o GenerateCsvContent(Tail(table_data))

\* the separator rows before table number n (counted from 1) of several tables
Separator(n) ==
    << <<>>, << <<"=", "=", "=", " ", "T", "A", "B", "L", "E", " ">> \o IntStr(n)
                \o <<" ", "=", "=", "=">> >>, <<>> >>

InitConvert ==
    /\ pipeline = "convert"
    /\ pc = "extracted"
    /\ extraction_result \in ExtractionResults
    /\ table_no = 1
    /\ combined_data = <<>>
    /\ csv_result = <<>>
    /\ output_file = <<>>
    /\ response = <<>>
    /\ all_tables = <<>> /\ unique_tables = <<>> /\ idx = 1 /\ last = NoLocals
    /\ ocr_data = <<>> /\ words = <<>> /\ rows = <<>>
    /\ current_row = <<>> /\ ocr_table = <<>>
    /\ cleaned_table = <<>> /\ processed_table = <<>>
    /\ raw_cell = <<>> /\ cleaned_cell = <<>>
    /\ scored_tables = <<>> /\ method_results = <<>> /\ quality_metrics = <<>>
    /\ warnings = <<>> /\ pdf_result = <<>>
    /\ image_shape = <<>> /\ contours = <<>> /\ detection_raised = FALSE /\ table_regions = <<>> /\ region_no = 0 /\ full_text = <<>> /\ fallback_calls = 0 /\ image_tables = <<>> /\ image_warnings = <<>> /\ image_result = <<>>
    /\ table_info = <<>> /\ temp_file = "saved"

\* app.py 105-111: the extraction did not succeed
RespondExtractionFailed ==
    /\ pipeline = "convert" /\ pc = "extracted"
    /\ ~extraction_result.success
    /\ response' = [success |-> FALSE, error |-> "Extraction failed",
                    message |-> extraction_result.message, status |-> 500]
    /\ pc' = "responded"
    /\ UNCHANGED <<pipeline, table_info, temp_file, extraction_result, table_no, combined_data, csv_result,
                   output_file, pdfVars, imageVars, csvVars, cellVars, scoreVars, extractVars>>

\* convert_to_csv is entered: no tables at all is a failure (data_processor.py 31-35)
BeginConvertToCsv ==
    /\ pipeline = "convert" /\ pc = "extracted"
    /\ extraction_result.success
    /\ IF extraction_result.tables = <<>>
       THEN /\ csv_result' = [success |-> FALSE,
                              message |-> "No table data provided for conversion"]
            /\ pc' = "converted"
       ELSE /\ csv_result' = csv_result
            /\ pc' = "tables"
    /\ UNCHANGED <<pipeline, table_info, temp_file, extraction_result, table_no, combined_data,
                   output_file, response, pdfVars, imageVars, csvVars, cellVars, scoreVars, extractVars>>

\* a table without data is passed over (lines 42-44)
SkipTable ==
    /\ pipeline = "convert" /\ pc = "tables"
    /\ table_no <= Len(extraction_result.tables)
    /\ extraction_result.tables[table_no].data = <<>>
    /\ table_no' = table_no + 1
    /\ UNCHANGED <<pipeline, table_info, temp_file, pc, extraction_result, combined_data, csv_result,
                   output_file, response, pdfVars, imageVars, csvVars, cellVars, scoreVars, extractVars>>

\* the separator rows, then cleaned_table = self._clean_table_data(table_data) (lines 46-53)
CleanTable ==
    /\ pipeline = "convert" /\ pc = "tables"
    /\ table_no <= Len(extraction_result.tables)
    /\ extraction_result.tables[table_no].data # <<>>
    /\ combined_data' =
           IF Len(extraction_result.tables) > 1 /\ combined_data # <<>>
           THEN combined_data \o Separator(table_no)
           ELSE combined_data
    /\ cleaned_table' = DataProcessorCleanTableData(extraction_result.tables[table_no].data)
    /\ pc' = "headers"
    /\ UNCHANGED <<pipeline, table_info, temp_file, extraction_result, table_no, csv_result, output_file,
                   response, processed_table, pdfVars, imageVars, cellVars, scoreVars, extractVars>>

\* the entry of table_info for table number i (counted from 0) (lines 61-66)
TableInfo(i, processed) ==
    [table_index |-> i,
     rows |-> Len(processed),
     columns |-> IF processed # <<>> THEN Len(processed[1]) ELSE 0,
     has_headers |-> HasHeaders(processed)]

\* processed_table = self._process_table_headers(cleaned_table), appended, and its entry
\* in table_info (lines 55-66)
ProcessHeaders ==
    /\ pipeline = "convert" /\ pc = "headers"
    /\ processed_table' = ProcessTableHeaders(cleaned_table)
    /\ combined_data' = combined_data \o ProcessTableHeaders(cleaned_table)
    /\ table_info' = Append(table_info, TableInfo(table_no - 1,
                                                  ProcessTableHeaders(cleaned_table)))
    /\ table_no' = table_no + 1
    /\ pc' = "tables"
    /\ UNCHANGED <<pipeline, temp_file, extraction_result, csv_result, output_file, response,
                   cleaned_table, pdfVars, imageVars, cellVars, scoreVars, extractVars>>

\* after the loop: no rows is a failure, else the CSV content and its counts (lines 68-92)
FinishConvertToCsv ==
    /\ pipeline = "convert" /\ pc = "tables"
    /\ table_no > Len(extraction_result.tables)
    /\ csv_result' =
           IF combined_data = <<>>
           THEN [success |-> FALSE, message |-> "No valid data found in tables"]
           ELSE [success |-> TRUE, csv_content |-> GenerateCsvContent(combined_data),
                 row_count |-> Len(combined_data),
                 column_count |-> MaxSeq([r \in 1..Len(combined_data) |->
                                             Len(combined_data[r])]),
                 table_count |-> Len(extraction_result.tables),
                 table_info |-> table_info]
    /\ pc' = "converted"
    /\ UNCHANGED <<pipeline, table_info, temp_file, extraction_result, table_no, combined_data, output_file,
                   response, pdfVars, imageVars, csvVars, cellVars, scoreVars, extractVars>>

\* app.py 119-125: the conversion did not succeed
RespondConversionFailed ==
    /\ pipeline = "convert" /\ pc = "converted"
    /\ ~csv_result.success
    /\ response' = [success |-> FALSE, error |-> "CSV conversion failed",
                    message |-> csv_result.message, status |-> 500]
    /\ pc' = "responded"
    /\ UNCHANGED <<pipeline, table_info, temp_file, extraction_result, table_no, combined_data, csv_result,
                   output_file, pdfVars, imageVars, csvVars, cellVars, scoreVars, extractVars>>

\* app.py 127-158: the CSV file is written, os.remove(temp_filepath) is tried (a failure
\* of it is logged and passed over) and the success response returned
RespondSuccess ==
    /\ pipeline = "convert" /\ pc = "converted"
    /\ csv_result.success
    /\ output_file' = <<csv_result.csv_content>>
    /\ \E removed \in BOOLEAN : temp_file' = IF removed THEN "removed" ELSE "saved"
    /\ response' = [success |-> TRUE, message |-> "File converted successfully",
                    tables_found |-> extraction_result.table_count,
                    total_rows |-> csv_result.row_count,
                    total_columns |-> csv_result.column_count, status |-> 200]
    /\ pc' = "responded"
    /\ UNCHANGED <<pipeline, table_info, extraction_result, table_no, combined_data, csv_result,
                   pdfVars, imageVars, csvVars, cellVars, scoreVars, extractVars>>

\* app.py 131-132 and 160-168: opening or writing the CSV file raises; the except branch
\* of convert_file returns the internal-error response
RespondUnexpectedError ==
    /\ pipeline = "convert" /\ pc = "converted"
    /\ csv_result.success
    /\ response' = [success |-> FALSE, error |-> "Internal server error",
                    message |-> "An unexpected error occurred during conversion",
                    status |-> 500]
    /\ pc' = "responded"
    /\ UNCHANGED <<pipeline, table_info, temp_file, extraction_result, table_no,
                   combined_data, csv_result, output_file,
                   pdfVars, imageVars, csvVars, cellVars, scoreVars, extractVars>>

NextConvert ==
    \/ RespondExtractionFailed
    \/ BeginConvertToCsv
    \/ SkipTable
    \/ CleanTable
    \/ ProcessHeaders
    \/ FinishConvertToCsv
    \/ RespondConversionFailed
    \/ RespondSuccess
    \/ RespondUnexpectedError

\* one upload from the extraction result to the response
SpecConvert == InitConvert /\ [][NextConvert]_vars

(***************************************************************************)
(* ImageExtractor.extract_tables: region detection, the extraction of each *)
(* region, and the whole-image fallback                                    *)
(***************************************************************************)
\* min_area: "Minimum area for a table"
MinArea == 1000
\* padding: "Add some padding"
Padding == 10

\* processed_image.shape of the images of the model: <<height, width>>
ImageShapes == {<<100, 100>>, <<120, 200>>}

\* cv2.contourArea and cv2.boundingRect of one contour
Contour(area, x, y, w, h) == [area |-> area, x |-> x, y |-> y, w |-> w, h |-> h]

\* the contours cv2.findContours may return for an image of the shape: the bounding
\* rectangle lies inside the image and the area is at most that of the rectangle through
\* the centres of its border pixels. One follows the border of the image, one touches its
\* right and lower edges, one lies near its left edge, and three of growing area lie in
\* its middle
ContoursIn(shape) ==
    LET H == shape[1]
        W == shape[2]
    IN { Contour((W - 1) * (H - 1), 0, 0, W, H),
         Contour((W - 41) * (H - 41), 40, 40, W - 40, H - 40),
         Contour(39 * 39, 5, 0, 40, 40),
         Contour(MinArea - 100, 40, 40, 40, 40),
         Contour(MinArea, 40, 40, 40, 40),
         Contour(MinArea + 1, 40, 40, 40, 40) }

\* the padded region of one contour
PaddedRegion(shape, c) ==
    [x |-> Max(0, c.x - Padding),
     y |-> Max(0, c.y - Padding),
     width |-> Min(shape[2] - c.x + Padding, c.w + 2 * Padding),
     height |-> Min(shape[1] - c.y + Padding, c.h + 2 * Padding),
     area |-> c.area]

\* table_regions.sort(key=area, reverse=True): stable, the largest first
RECURSIVE InsertByAreaDescending(_, _)
InsertByAreaDescending(sorted, region) ==
    IF sorted = <<>> THEN <<region>>
    ELSE IF region.area > Head(sorted).area THEN <<region>> \o sorted
         ELSE <<Head(sorted)>> \o InsertByAreaDescending(Tail(sorted), region)

RECURSIVE SortByAreaDescending(_, _)
SortByAreaDescending(sorted, regions) ==
    IF regions = <<>> THEN sorted
    ELSE SortByAreaDescending(InsertByAreaDescending(sorted, Head(regions)), Tail(regions))

\* _detect_table_regions when nothing raises: the contours above the minimum area, padded,
\* the largest first
DetectTableRegions(shape, found) ==
    LET large == SelectSeq(found, LAMBDA c : c.area > MinArea)
    IN SortByAreaDescending(<<>>, [k \in 1..Len(large) |-> PaddedRegion(shape, large[k])])

\* the loop of _parse_ocr_to_table over the sorted words
RECURSIVE ClusterWords(_, _, _)
ClusterWords(closed, open, remaining) ==
    IF remaining = <<>>
    THEN IF open # <<>> THEN Append(closed, SortByKey(open, "left")) ELSE closed
    ELSE IF open = <<>> THEN ClusterWords(closed, <<Head(remaining)>>, Tail(remaining))
    ELSE IF InSameRow(Head(remaining), open)
         THEN ClusterWords(closed, Append(open, Head(remaining)), Tail(remaining))
         ELSE ClusterWords(Append(closed, SortByKey(open, "left")), <<Head(remaining)>>,
                           Tail(remaining))

\* _parse_ocr_to_table as one call
ParseOcrToTable(data) ==
    LET kept == ExtractWords(data)
    IN IF kept = <<>> THEN <<>>
       ELSE NormalizeRows(RowTexts(ClusterWords(<<>>, <<>>, SortByKey(kept, "top"))))

\* _calculate_ocr_confidence: the mean of the positive confidences, cut to integers, over 100
CalculateOcrConfidence(data) ==
    LET confidences == SelectSeq([k \in 1..Len(data) |-> IntConf(data[k].conf)],
                                 LAMBDA c : c > 0)
    IN IF confidences = <<>> THEN Ratio(0, 1)
       ELSE Reduced(Ratio(SumSeq(confidences), 100 * Len(confidences)))

\* _extract_table_from_region when the OCR engine answers with data: no table (None) or
\* one table
ExtractTableFromRegion(region, table_index, data) ==
    LET table_data == ParseOcrToTable(data)
    IN IF table_data # <<>>
       THEN <<[table_index |-> table_index,
               data |-> table_data,
               rows |-> Len(table_data),
               columns |-> Len(table_data[1]),
               region |-> region,
               confidence |-> CalculateOcrConfidence(data)]>>
       ELSE <<>>

\* what pytesseract.image_to_data may return for a region: nothing, one legible word, an
\* illegible and a legible word, a box without text
RegionOcrResults ==
    { <<>>,
      <<OcrEntry(<<"w", "1">>, 900, 0, 0)>>,
      <<OcrEntry(<<"w", "1">>, 10 * ConfidenceFloor + 5, 0, 0),
        OcrEntry(<<" ", "w", "2">>, 965, 5, 41)>>,
      <<OcrEntry(<<>>, -10, 0, 0)>> }

\* text.split('\n')
RECURSIVE SplitLinesFrom(_, _)
SplitLinesFrom(line, rest) ==
    IF rest = <<>> THEN <<line>>
    ELSE IF Head(rest) = "\n" THEN <<line>> \o SplitLinesFrom(<<>>, Tail(rest))
         ELSE SplitLinesFrom(Append(line, Head(rest)), Tail(rest))

SplitLines(text) == SplitLinesFrom(<<>>, text)

\* the length of the run of whitespace s starts with
RECURSIVE WhitespaceRun(_)
WhitespaceRun(s) ==
    IF s # <<>> /\ Head(s) \in WhitespaceChars THEN 1 + WhitespaceRun(Tail(s)) ELSE 0

\* re.split(r'\s{2,}|\t|[|]', line): a run of two or more whitespace characters, a tab or
\* a bar ends a cell
RECURSIVE SplitCellsFrom(_, _)
SplitCellsFrom(cell, rest) ==
    IF rest = <<>> THEN <<cell>>
    ELSE IF WhitespaceRun(rest) >= 2
         THEN <<cell>> \o SplitCellsFrom(<<>>, SubSeq(rest, WhitespaceRun(rest) + 1, Len(rest)))
    ELSE IF Head(rest) \in {"\t", "|"} THEN <<cell>> \o SplitCellsFrom(<<>>, Tail(rest))
    ELSE SplitCellsFrom(Append(cell, Head(rest)), Tail(rest))

\* the cells of one line: split, stripped, the empty ones dropped
LineCells(line) ==
    SelectSeq([k \in 1..Len(SplitCellsFrom(<<>>, line)) |->
                  Strip(SplitCellsFrom(<<>>, line)[k])],
              LAMBDA cell : cell # <<>>)

\* a selection that keeps every row
TabularRowsKeepingAll(line_rows) == line_rows

\* "Only keep rows with multiple columns"
TabularRows(line_rows) == SelectSeq(line_rows, LAMBDA row : Len(row) > 1)

\* the rows _extract_full_text_as_table takes from the text, before padding
FullTextRows(text) ==
    LET lines == SelectSeq([k \in 1..Len(SplitLines(text)) |-> Strip(SplitLines(text)[k])],
                           LAMBDA line : line # <<>>)
    IN TabularRows([k \in 1..Len(lines) |-> LineCells(lines[k])])

\* _extract_full_text_as_table when the OCR engine answers with text: no table (None) or
\* one table
ExtractFullTextAsTable(text) ==
    LET table_data == FullTextRows(text)
    IN IF Strip(text) = <<>> \/ table_data = <<>> THEN <<>>
       ELSE <<[table_index |-> 0,
               data |-> NormalizeRows(table_data),
               rows |-> Len(table_data),
               columns |-> MaxSeq([k \in 1..Len(table_data) |-> Len(table_data[k])]),
               confidence |-> Ratio(1, 2)]>>

\* the lines pytesseract.image_to_string may read
TextLines ==
    { <<"a", "|", "b">>,
      <<"a", " ", " ", "b">>,
      <<"a", " ", "b">>,
      <<"a", "\t", "b", "|", "c">>,
      <<" ", "a", " ", "|", " ", "|", " ", "b", " ">>,
      <<"a", " ", "\t", "b", " ", "c">>,
      <<"a">>,
      <<"|">>,
      <<" ">>,
      <<>> }

\* the lines joined by '\n'
RECURSIVE JoinLines(_)
JoinLines(lines) ==
    IF lines = <<>> THEN <<>>
    ELSE IF Len(lines) = 1 THEN lines[1]
    ELSE lines[1] \o <<"\n">> \o JoinLines(Tail(lines))

\* the texts of the whole image
FullTexts == {JoinLines(lines) : lines \in SeqsUpTo(TextLines, MaxLines)}

InitExtract ==
    /\ pipeline = "extract_image"
    /\ pc = "load"
    /\ image_shape = <<>> /\ contours = <<>> /\ detection_raised = FALSE
    /\ table_regions = <<>> /\ region_no = 0 /\ full_text = <<>> /\ fallback_calls = 0
    /\ image_tables = <<>> /\ image_warnings = <<>> /\ image_result = <<>>
    /\ all_tables = <<>> /\ unique_tables = <<>> /\ idx = 1 /\ last = NoLocals
    /\ ocr_data = <<>> /\ words = <<>> /\ rows = <<>> /\ current_row = <<>> /\ ocr_table = <<>>
    /\ cleaned_table = <<>> /\ processed_table = <<>>
    /\ raw_cell = <<>> /\ cleaned_cell = <<>>
    /\ scored_tables = <<>> /\ method_results = <<>> /\ quality_metrics = <<>>
    /\ warnings = <<>> /\ pdf_result = <<>>
    /\ extraction_result = <<>> /\ table_no = 0 /\ combined_data = <<>> /\ csv_result = <<>> /\ output_file = <<>> /\ response = <<>>
    /\ table_info = <<>> /\ temp_file = "absent"

\* lines 39-44: cv2.imread returns None, or the preprocessing raises; the handler of
\* line 93 answers
ImageLoadFailed ==
    /\ pipeline = "extract_image" /\ pc = "load"
    /\ image_result' = [success |-> FALSE]
    /\ pc' = "returned"
    /\ UNCHANGED <<pipeline, image_shape, contours, detection_raised, table_regions, region_no,
                   full_text, fallback_calls, image_tables, image_warnings,
                   pdfVars, imageVars, csvVars, cellVars, scoreVars, convVars>>

\* lines 39-47: the image is loaded and preprocessed, and _detect_table_regions finds and
\* filters the contours
LoadAndDetectRegions ==
    /\ pipeline = "extract_image" /\ pc = "load"
    /\ \E shape \in ImageShapes :
           \E found \in SeqsUpTo(ContoursIn(shape), MaxContours) :
               /\ image_shape' = shape
               /\ contours' = found
               /\ table_regions' = DetectTableRegions(shape, found)
    /\ detection_raised' = FALSE
    /\ region_no' = 1
    /\ pc' = "detected"
    /\ UNCHANGED <<pipeline, full_text, fallback_calls, image_tables, image_warnings,
                   image_result, pdfVars, imageVars, csvVars, cellVars, scoreVars, convVars>>

\* lines 39-47 when a call of cv2 inside _detect_table_regions raises: its handler
\* returns []
LoadAndDetectionRaises ==
    /\ pipeline = "extract_image" /\ pc = "load"
    /\ image_shape' \in ImageShapes
    /\ detection_raised' = TRUE
    /\ table_regions' = <<>>
    /\ region_no' = 1
    /\ pc' = "detected"
    /\ UNCHANGED <<pipeline, contours, full_text, fallback_calls, image_tables,
                   image_warnings, image_result,
                   pdfVars, imageVars, csvVars, cellVars, scoreVars, convVars>>

\* lines 52-59: "If no tables detected, try full image OCR"; the OCR engine answers with a
\* text or raises, which _extract_full_text_as_table turns into None
FullImageFallback ==
    /\ pipeline = "extract_image" /\ pc = "detected"
    /\ table_regions = <<>>
    /\ \E raised \in BOOLEAN :
           \E text \in IF raised THEN {<<>>} ELSE FullTexts :
               LET full_text_result == IF raised THEN <<>> ELSE ExtractFullTextAsTable(text)
               IN /\ full_text' = text
                  /\ image_tables' = image_tables \o full_text_result
                  /\ image_warnings' =
                         IF full_text_result # <<>> THEN image_warnings
                         ELSE Append(image_warnings,
                                     "No tabular data could be extracted from image")
    /\ fallback_calls' = fallback_calls + 1
    /\ pc' = "extracted"
    /\ UNCHANGED <<pipeline, image_shape, contours, detection_raised, table_regions, region_no,
                   image_result, pdfVars, imageVars, csvVars, cellVars, scoreVars, convVars>>

\* lines 60-72: the body of "for i, region in enumerate(table_regions)"; the OCR engine
\* answers with data or raises, which _extract_table_from_region turns into None, so that
\* the handler of line 70 never runs
ExtractRegion ==
    /\ pipeline = "extract_image" /\ pc = "detected"
    /\ table_regions # <<>>
    /\ \E raised \in BOOLEAN :
           \E data \in IF raised THEN {<<>>} ELSE RegionOcrResults :
               LET table_data == IF raised THEN <<>>
                                 ELSE ExtractTableFromRegion(table_regions[region_no],
                                                             region_no - 1, data)
               IN /\ image_tables' = image_tables \o table_data
                  /\ image_warnings' =
                         IF table_data # <<>> THEN image_warnings
                         ELSE Append(image_warnings,
                                     <<"Table region produced no usable data", region_no - 1>>)
    /\ region_no' = region_no + 1
    /\ pc' = IF region_no = Len(table_regions) THEN "extracted" ELSE "detected"
    /\ UNCHANGED <<pipeline, image_shape, contours, detection_raised, table_regions, full_text,
                   fallback_calls, image_result,
                   pdfVars, imageVars, csvVars, cellVars, scoreVars, convVars>>

\* lines 74-91: the quality metrics and the result
ImageExtractReturn ==
    /\ pipeline = "extract_image" /\ pc = "extracted"
    /\ \E metrics \in RoundedMetrics(ImageQualityMetrics(image_tables)) :
           image_result' = [success |-> TRUE,
                            tables |-> image_tables,
                            table_count |-> Len(image_tables),
                            accuracy_score |-> metrics.accuracy_score,
                            quality_metrics |-> metrics,
                            warnings |-> image_warnings]
    /\ pc' = "returned"
    /\ UNCHANGED <<pipeline, image_shape, contours, detection_raised, table_regions, region_no,
                   full_text, fallback_calls, image_tables, image_warnings,
                   pdfVars, imageVars, csvVars, cellVars, scoreVars, convVars>>

NextExtract ==
    \/ ImageLoadFailed
    \/ LoadAndDetectRegions
    \/ LoadAndDetectionRaises
    \/ FullImageFallback
    \/ ExtractRegion
    \/ ImageExtractReturn

\* one call of ImageExtractor.extract_tables
SpecExtract == InitExtract /\ [][NextExtract]_vars

(***************************************************************************)
(* The application: one upload, dispatched on its file type                *)
(***************************************************************************)
Init ==
    InitPdf \/ InitImage \/ InitCsv \/ InitCell \/ InitScore \/ InitConvert \/ InitExtract

Next ==
    NextPdf \/ NextImage \/ NextCsv \/ NextCell \/ NextScore \/ NextConvert \/ NextExtract

Spec == Init /\ [][Next]_vars

(***************************************************************************)
(* Grids leaving the Token Clusterer and the Reconciler                    *)
(***************************************************************************)
\* C1: every grid returned by _parse_ocr_to_table and every grid in the Reconciler's
\* accumulator and output is rectangular: all its rows have the same length
C1_GridsRectangular ==
    /\ Rectangular(ocr_table)
    /\ \A k \in 1..Len(unique_tables) : Rectangular(unique_tables[k].data)

\* the Reconciler returned a pdfplumber grid whose short raw row was padded with ''
C1_Witness ==
    /\ pipeline = "pdf" /\ pc = "done"
    /\ \E k \in 1..Len(unique_tables) :
          /\ unique_tables[k].extraction_method = "pdfplumber"
          /\ Len(unique_tables[k].data) = 3
          /\ unique_tables[k].data[2] = <<<<"a">>, <<>>>>

(***************************************************************************)
(* Header Inferencer: the claims                                           *)
(***************************************************************************)
\* header processing has run on cleaned_table and processed_table is its result
HeadersProcessed == pipeline = "csv" /\ pc \in {"processed", "reprocessed"}

\* header processing kept the row count: the first row was judged a header
JudgedHeader == Len(processed_table) = Len(cleaned_table)

\* C7: when a header row is detected, the emitted header names are pairwise distinct
C7_HeaderNamesDistinct ==
    (HeadersProcessed /\ JudgedHeader) =>
        \A i, j \in 1..Len(processed_table[1]) :
            i # j => processed_table[1][i] # processed_table[1][j]

\* a cell that matches the pattern of digits, '.', ',', '%' and '-' only
LooksNumeric(cell) ==
    Len(cell) > 0 /\ {cell[k] : k \in 1..Len(cell)} \subseteq DigitChars \cup {".", ",", "%", "-"}

\* the indicator count of C8 as stated: 1 for each row-0 cell that is not numeric-looking,
\* and 1 more where such a cell stands over a numeric-looking row-1 cell
StatedIndicatorCount(grid) ==
    Cardinality({i \in 1..Len(grid[1]) : ~LooksNumeric(grid[1][i])})
    + Cardinality({i \in 1..Len(grid[1]) :
                      ~LooksNumeric(grid[1][i]) /\ LooksNumeric(grid[2][i])})

\* the indicator count with blank row-0 cells skipped
NonBlankIndicatorCount(grid) ==
    Cardinality({i \in 1..Len(grid[1]) : grid[1][i] # <<>> /\ ~LooksNumeric(grid[1][i])})
    + Cardinality({i \in 1..Len(grid[1]) :
                      /\ grid[1][i] # <<>> /\ ~LooksNumeric(grid[1][i])
                      /\ LooksNumeric(grid[2][i])})

\* C8 as stated: a grid of at least 2 rows is judged headered exactly when the stated
\* indicator count exceeds half the column count
C8_HeaderedIffStatedCountAboveHalf ==
    (HeadersProcessed /\ Len(cleaned_table) >= 2) =>
        (JudgedHeader <=> 2 * StatedIndicatorCount(cleaned_table) > Len(cleaned_table[1]))

\* C8 amended: a grid of at least 2 rows is judged headered exactly when the indicator
\* count exceeds half the column count, the count taken over the non-blank row-0 cells only
C8_HeaderedIffNonBlankCountAboveHalf ==
    (HeadersProcessed /\ Len(cleaned_table) >= 2) =>
        (JudgedHeader <=> 2 * NonBlankIndicatorCount(cleaned_table) > Len(cleaned_table[1]))

\* a grid judged headered only thanks to a text cell standing over a number
C8_Witness ==
    /\ HeadersProcessed /\ Len(cleaned_table) >= 2 /\ JudgedHeader
    /\ Len(cleaned_table[1]) = 2
    /\ LooksNumeric(cleaned_table[1][2])
    /\ NonBlankIndicatorCount(cleaned_table) = 2

\* C9: header processing of a non-empty cleaned grid of k columns emits a first row of k
\* non-blank names; when a header is detected the names are sanitized (word characters and
\* hyphens only) and the row count and the rows below are kept, otherwise Column_1..Column_k
\* is prepended to the unchanged rows
C9_HeaderRowAlwaysEmitted ==
    HeadersProcessed =>
        LET k == Len(cleaned_table[1])
        IN /\ Len(processed_table[1]) = k
           /\ \A i \in 1..k : Strip(processed_table[1][i]) # <<>>
           /\ IF HasHeaders(cleaned_table)
              THEN /\ Len(processed_table) = Len(cleaned_table)
                   /\ Tail(processed_table) = Tail(cleaned_table)
                   /\ \A i \in 1..k : \A c \in 1..Len(processed_table[1][i]) :
                          processed_table[1][i][c] \in WordChars \cup {"-"}
              ELSE /\ Len(processed_table) = Len(cleaned_table) + 1
                   /\ processed_table[1] =
                          [i \in 1..k |-> <<"C", "o", "l", "u", "m", "n", "_">> \o IntStr(i)]
                   /\ Tail(processed_table) = cleaned_table

\* a detected header whose only symbol was cleaned away and replaced by a placeholder
C9_Witness ==
    /\ HeadersProcessed /\ HasHeaders(cleaned_table)
    /\ Len(cleaned_table) = 3
    /\ \E i \in 1..Len(cleaned_table[1]) :
          cleaned_table[1][i] = <<"$">> /\ processed_table[1][i] = ColumnName(i)

\* the first row of the grid is Column_1..Column_k
PlaceholderRow(grid) ==
    grid[1] = [i \in 1..Len(grid[1]) |-> <<"C", "o", "l", "u", "m", "n", "_">> \o IntStr(i)]

\* C10: header processing of a grid whose first row is Column_1..Column_k, with data rows
\* below it, returns the same grid
C10_PlaceholderRowKept ==
    (HeadersProcessed /\ Len(cleaned_table) >= 2 /\ PlaceholderRow(cleaned_table)) =>
        processed_table = cleaned_table

\* the second run on a grid that got its placeholder row from the first run
C10_Witness ==
    /\ pipeline = "csv" /\ pc = "reprocessed"
    /\ Len(cleaned_table) = 3 /\ Len(cleaned_table[1]) = 2
    /\ PlaceholderRow(cleaned_table)
    /\ ~HasHeaders(Tail(cleaned_table))
    /\ processed_table = cleaned_table

(***************************************************************************)
(* Cell Normalizer: the claims                                             *)
(***************************************************************************)
\* a numeral with a decimal point: an optional sign, digits and exactly one point
PointNumeral(t) ==
    LET u == Unsigned(t)
    IN /\ Chars(u) \subseteq DigitChars \cup {"."}
       /\ Len(RemoveAll(u, {"."})) = Len(u) - 1
       /\ Len(u) > 1

\* an integer numeral: an optional sign and digits
IntegerNumeral(t) == Unsigned(t) # <<>> /\ Chars(Unsigned(t)) \subseteq DigitChars

\* out is the integer numeral of sign neg and magnitude n: no '+', no leading zero
CanonicalInteger(out, neg, n) ==
    /\ IntegerNumeral(out)
    /\ Head(out) # "+"
    /\ Head(Unsigned(out)) = "0" => out = <<"0">>
    /\ Negative(out) <=> (neg /\ n # 0)
    /\ DigitsValue(Unsigned(out)) = n

\* out, in positional or exponent notation, has at most 6 significant digits and is the
\* value (-)n / 10^f rounded to 6 significant digits: equal to it when n has no more
\* than 6 digits, within half a unit of the sixth digit otherwise
SixSignificantDigits(out, neg, n, f) ==
    LET at == IF "e" \in Chars(out) THEN CHOOSE k \in 1..Len(out) : out[k] = "e"
              ELSE Len(out) + 1
        mantissa == ParseFloat(SubSeq(out, 1, at - 1))
        exponent == ParseInt(SubSeq(out, at + 1, Len(out)))
        e == IF at > Len(out) THEN 0
             ELSE IF exponent.neg THEN -exponent.n ELSE exponent.n
        g == mantissa.f - e
        s == IF g > f THEN g ELSE f
        d == Len(IntStr(n))
        a == mantissa.n * Pow10(s - g)
        b == n * Pow10(s - f)
        unit == (IF d > 6 THEN Pow10(d - 6) ELSE 1) * Pow10(s - f)
    IN /\ mantissa.ok
       /\ at <= Len(out) => exponent.ok
       /\ mantissa.neg = neg
       /\ Len(IntStr(mantissa.n)) <= 6
       /\ IF d <= 6 THEN a = b ELSE 2 * (a - b) <= unit /\ 2 * (b - a) <= unit

RECURSIVE QuotesDoubled(_)
QuotesDoubled(s) ==
    IF s = <<>> THEN <<>>
    ELSE IF Head(s) = "\"" THEN <<"\"", "\"">> \o QuotesDoubled(Tail(s))
         ELSE <<Head(s)>> \o QuotesDoubled(Tail(s))

\* s without its null bytes and byte-order marks
ControlsDropped(s) == SelectSeq(s, LAMBDA c : c # "NUL" /\ c # "BOM")

\* a numeral, with or without a decimal point
Numeral(t) == PointNumeral(t) \/ IntegerNumeral(t)

\* the text is a number: without currency signs and commas it is a numeral, or it holds a
\* percent sign and is a numeral without its percent signs
NumberText(s) ==
    LET t == Strip(SelectSeq(s, LAMBDA c : c \notin CurrencySymbols))
    IN \/ Numeral(t)
       \/ "%" \in Chars(t) /\ Numeral(Strip(SelectSeq(t, LAMBDA c : c # "%")))

\* C12 as stated: a cell whose text is not a number is returned unchanged except that its
\* whitespace is collapsed and trimmed and its quotes are doubled, currency signs and
\* commas included
C12_TextUnchangedButWhitespaceAndQuotes ==
    (pipeline = "cell" /\ pc = "cleaned"
        /\ ~NumberText(ControlsDropped(JoinSplit(raw_cell)))) =>
        cleaned_cell = Strip(QuotesDoubled(JoinSplit(raw_cell)))

\* C12 amended: a cell whose text is not a number is returned unchanged except that its
\* whitespace is collapsed, its null bytes and byte-order marks are then dropped, its quotes
\* are doubled and the result is trimmed, currency signs and commas included
C12_TextUnchangedButCleanup ==
    (pipeline = "cell" /\ pc = "cleaned"
        /\ ~NumberText(ControlsDropped(JoinSplit(raw_cell)))) =>
        cleaned_cell = Strip(QuotesDoubled(ControlsDropped(JoinSplit(raw_cell))))

\* a text with a currency sign and a null byte was returned with the sign and without
\* the null byte
C12_Witness ==
    /\ pipeline = "cell" /\ pc = "cleaned"
    /\ raw_cell = <<"$", "NUL", "a">>
    /\ cleaned_cell = <<"$", "a">>

(***************************************************************************)
(* Quality Scorer: the claims                                              *)
(***************************************************************************)
\* C13: every accuracy_score, completeness, consistency and ocr_confidence a scorer
\* returns lies in [0, 1], whatever tables it was handed
C13_MetricsWithinUnitInterval ==
    pc = "scored" =>
        \A k \in DOMAIN quality_metrics \cap
                 {"accuracy_score", "completeness", "consistency", "ocr_confidence"} :
            quality_metrics[k] >= 0 /\ quality_metrics[k] <= 1000

(***************************************************************************)
(* Backend failures: the claims                                            *)
(***************************************************************************)
\* the extraction methods that returned an unsuccessful result
FailedMethods ==
    {MethodNames[k] : k \in {i \in 1..Len(method_results) : ~method_results[i]}}

\* extract_tables returned success with the reconciled tables of the methods that worked
PartialSuccess ==
    /\ pdf_result.success
    /\ pdf_result.tables = DeduplicateTables(all_tables)
    /\ \A k \in 1..Len(pdf_result.tables) :
           pdf_result.tables[k].extraction_method \notin FailedMethods

\* C14: when an extraction method failed and another one yielded tables, extract_tables
\* returns success with the tables of the other methods, and its warnings hold an entry
\* for each failed method
C14_FailedBackendWarned ==
    (pipeline = "pdf" /\ pc = "returned" /\ FailedMethods # {} /\ all_tables # <<>>) =>
        /\ PartialSuccess
        /\ \A m \in FailedMethods :
               \E k \in 1..Len(pdf_result.warnings) : pdf_result.warnings[k] = m

(***************************************************************************)
(* Conversion of one upload: the claims                                    *)
(***************************************************************************)
\* a cell as cleaned before any numeral is normalized
UnNormalizedCell(c) == Strip(QuotesDoubled(ControlsDropped(JoinSplit(c))))

\* the table has data that survives cleaning: a row with a cell that is not blank
HasData(table) ==
    \E r \in 1..Len(table.data) : \E k \in 1..Len(table.data[r]) :
        UnNormalizedCell(table.data[r][k]) # <<>>

\* zero tables with data survive extraction and cleaning
NoSurvivingData ==
    \/ ~extraction_result.success
    \/ \A t \in 1..Len(extraction_result.tables) : ~HasData(extraction_result.tables[t])

\* C15: when zero tables with data survive extraction and cleaning, no output CSV is ever
\* written and the response is a failure with an error classification and a message,
\* never a success
C15_NoDataNeverSuccess ==
    (pipeline = "convert" /\ NoSurvivingData) =>
        /\ output_file = <<>>
        /\ pc = "responded" =>
               /\ ~response.success
               /\ response.status # 200
               /\ response.error \in {"Extraction failed", "CSV conversion failed"}
               /\ response.message # ""

\* an extraction that succeeded with a table whose cells all clean to nothing was
\* answered with a conversion failure
C15_Witness ==
    /\ pipeline = "convert" /\ pc = "responded"
    /\ extraction_result.success
    /\ extraction_result.tables # <<>>
    /\ \E t \in 1..Len(extraction_result.tables) : extraction_result.tables[t].data # <<>>
    /\ NoSurvivingData
    /\ response.error = "CSV conversion failed"
    /\ response.message = "No valid data found in tables"

\* the rows of the table with content, their cells cleaned but not normalized, padded
RECURSIVE RowsWithContent(_)
RowsWithContent(data) ==
    IF data = <<>> THEN <<>>
    ELSE LET r == [k \in 1..Len(Head(data)) |-> UnNormalizedCell(Head(data)[k])]
         IN IF \E k \in 1..Len(r) : r[k] # <<>>
            THEN <<r>> \o RowsWithContent(Tail(data))
            ELSE RowsWithContent(Tail(data))

UnNormalizedGrid(data) ==
    LET g == RowsWithContent(data)
        widest == MaxSeq([r \in 1..Len(g) |-> Len(g[r])])
    IN [r \in 1..Len(g) |-> g[r] \o [k \in 1..(widest - Len(g[r])) |-> <<>>]]

\* the same grid with the numerals of its cells normalized
NormalizedGrid(data) ==
    LET g == UnNormalizedGrid(data)
    IN [r \in 1..Len(g) |-> [k \in 1..Len(g[r]) |-> Strip(NormalizeNumericData(g[r][k]))]]

\* header processing has just handled a table with rows left after cleaning
HeadersDecided ==
    /\ pipeline = "convert" /\ pc = "tables" /\ table_no > 1
    /\ extraction_result.tables[table_no - 1].data # <<>>
    /\ cleaned_table # <<>>

\* the decision taken: the first row was kept as the header row, not a synthetic one added
JudgedHeadered == Len(processed_table) = Len(cleaned_table)

RECURSIVE Flatten(_)
Flatten(closed) == IF closed = <<>> THEN <<>> ELSE Head(closed) \o Flatten(Tail(closed))

\* the OCR entry is among the words of the closed rows, its text trimmed
KeptEntry(e) ==
    \E k \in 1..Len(Flatten(rows)) : Flatten(rows)[k] = [e EXCEPT !.text = Strip(e.text)]

\* the number of OCR entries that satisfy Keep
CountOf(Keep(_)) == Cardinality({k \in 1..Len(ocr_data) : Keep(ocr_data[k])})

\* the text is not empty after trimming and the confidence is not below the floor
AtOrAboveFloor(e) == Strip(e.text) # <<>> /\ e.conf >= 10 * ConfidenceFloor

\* C17: the words the clusterer kept are exactly the entries whose text is not empty after
\* trimming and whose confidence is 30 or more
C17_KeptIffAtOrAboveFloor ==
    (pipeline = "image" /\ pc = "done") =>
        /\ \A k \in 1..Len(ocr_data) : KeptEntry(ocr_data[k]) <=> AtOrAboveFloor(ocr_data[k])
        /\ Len(Flatten(rows)) = CountOf(AtOrAboveFloor)

\* the tokens the clusterer accepts (every entry with text whose confidence has an
\* integer part above 30, which is 31 or more), trimmed, in reading order
Accepted == SelectSeq([k \in 1..Len(ocr_data) |->
                          [ocr_data[k] EXCEPT !.text = Strip(ocr_data[k].text)]],
                      LAMBDA e : e.text # <<>> /\ e.conf >= 10 * (ConfidenceFloor + 1))

\* the place of element j of s in a stable sort of s by key
Rank(s, j, key) ==
    1 + Cardinality({m \in 1..Len(s) :
                        \/ s[m][key] < s[j][key]
                        \/ s[m][key] = s[j][key] /\ m < j})

\* s stably sorted by key
StablySorted(s, key) ==
    [p \in 1..Len(s) |-> s[CHOOSE j \in 1..Len(s) : Rank(s, j, key) = p]]

\* token p of s joins the row that opened at position open exactly when
\* |top - mean top of the row's members| <= 20
Joins(s, open, p) ==
    LET n == p - open
        total == SumSeq([k \in 1..n |-> s[open + k - 1].top])
    IN s[p].top * n - total <= 20 * n /\ total - s[p].top * n <= 20 * n

\* for each token of s, the position at which its row opened; starts holds the answer
\* for the first tokens
RECURSIVE RowStarts(_, _)
RowStarts(s, starts) ==
    IF Len(starts) = Len(s) THEN starts
    ELSE IF starts = <<>> THEN RowStarts(s, <<1>>)
         ELSE RowStarts(s, Append(starts,
                  IF Joins(s, starts[Len(starts)], Len(starts) + 1)
                  THEN starts[Len(starts)] ELSE Len(starts) + 1))

\* the reference clustering of the sorted tokens s: the rows in the order they close, each
\* ordered by left
RowsOf(s, starts) ==
    LET opened == SelectSeq([p \in 1..Len(s) |-> p], LAMBDA p : starts[p] = p)
    IN [i \in 1..Len(opened) |->
           StablySorted(SelectSeq([p \in 1..Len(s) |-> IF starts[p] = opened[i] THEN s[p]
                                                        ELSE <<>>],
                                  LAMBDA e : e # <<>>), "left")]

ReferenceRows ==
    RowsOf(StablySorted(Accepted, "top"), RowStarts(StablySorted(Accepted, "top"), <<>>))

\* C19: the rows _parse_ocr_to_table produces are those of the reference clustering, and
\* the grid it returns holds their texts, the shorter rows filled up with empty cells
C19_RowsEqualReference ==
    (pipeline = "image" /\ pc = "done") =>
        /\ rows = ReferenceRows
        /\ Len(ocr_table) = Len(rows)
        /\ \A i \in 1..Len(rows) :
               /\ \A r \in 1..Len(rows) : Len(ocr_table[i]) >= Len(rows[r])
               /\ \E r \in 1..Len(rows) : Len(ocr_table[i]) = Len(rows[r])
               /\ \A k \in 1..Len(ocr_table[i]) :
                      ocr_table[i][k] = IF k <= Len(rows[i]) THEN rows[i][k].text ELSE <<>>

\* tokens at tops 0, 20 and 30 were put in one row: the third is 20 away from the mean of
\* the first two, and 30 away from the first
C19_Witness ==
    /\ pipeline = "image" /\ pc = "done"
    /\ Len(rows) = 1 /\ Len(rows[1]) = 3
    /\ {rows[1][k].top : k \in 1..3} = {0, 20, 30}
    /\ \E k \in 1..2 : rows[1][k].left = rows[1][k + 1].left

(***************************************************************************)
(* ImageExtractor.extract_tables: the claims                               *)
(***************************************************************************)
\* the row without the empty cells at its end
RECURSIVE Unpadded(_)
Unpadded(row) ==
    IF row # <<>> /\ row[Len(row)] = <<>> THEN Unpadded(SubSeq(row, 1, Len(row) - 1)) ELSE row

\* the cells of the lines of the text that are not blank, line by line
CellsOfLines(text) ==
    LET lines == SelectSeq(SplitLines(text), LAMBDA line : Strip(line) # <<>>)
    IN [k \in 1..Len(lines) |-> LineCells(Strip(lines[k]))]

\* the image was loaded, region detection is over and the regions, if any, were treated
RegionsTreated == pc \in {"extracted", "returned"} /\ image_shape # <<>>

\* C16: the whole-image fallback has run once when region detection, failed or not,
\* yielded no region, and never otherwise; the rows of a table it produced are the lines
\* of more than one column, in order, filled up with empty cells, and the table carries
\* the confidence 0.5
C16_FallbackExactlyWhenNoRegions ==
    pipeline = "extract_image" =>
        /\ fallback_calls = IF RegionsTreated /\ table_regions = <<>> THEN 1 ELSE 0
        /\ detection_raised => table_regions = <<>>
        /\ fallback_calls = 1 =>
               /\ Len(image_tables) <= 1
               /\ \A t \in 1..Len(image_tables) :
                      /\ 2 * image_tables[t].confidence[1] = image_tables[t].confidence[2]
                      /\ \A r \in 1..Len(image_tables[t].data) :
                             /\ Len(Unpadded(image_tables[t].data[r])) > 1
                             /\ \A k \in 1..Len(Unpadded(image_tables[t].data[r])) :
                                    image_tables[t].data[r][k] # <<>>
                      /\ [r \in 1..Len(image_tables[t].data) |->
                             Unpadded(image_tables[t].data[r])]
                           = SelectSeq(CellsOfLines(full_text), LAMBDA row : Len(row) > 1)

\* region detection raised, the fallback ran once and made a table of one row out of a
\* text of two lines, the other line having a single column
C16_Witness ==
    /\ pipeline = "extract_image" /\ pc = "returned"
    /\ detection_raised /\ fallback_calls = 1
    /\ Len(image_tables) = 1
    /\ Len(image_tables[1].data) = 1
    /\ Len(CellsOfLines(full_text)) = 2

\* C18: every region lies inside the image: x >= 0, y >= 0, x + width <= W and
\* y + height <= H, with width > 0 and height > 0
C18_PaddedRegionInsideImage ==
    pipeline = "extract_image" =>
        \A k \in 1..Len(table_regions) :
            /\ table_regions[k].x >= 0 /\ table_regions[k].y >= 0
            /\ table_regions[k].x + table_regions[k].width <= image_shape[2]
            /\ table_regions[k].y + table_regions[k].height <= image_shape[1]
            /\ table_regions[k].width > 0 /\ table_regions[k].height > 0

(***************************************************************************)
(* Cell Normalizer: the percent step                                       *)
(***************************************************************************)
\* the text _clean_cell_content hands to _normalize_numeric_data
BeforeNormalizing(cell) ==
    Replace(Replace(RemoveAll(JoinSplit(Str(cell)), {"NUL", "BOM"}), "\r", <<" ">>),
            "\"", <<"\"", "\"">>)

\* the percent sign is the last character of the text
TrailingPercent(text) == text # <<>> /\ text[Len(text)] = "%"

\* the text before its last character, without currency signs and commas, as a float
PercentRemainder(text) ==
    ParseFloat(Strip(RemoveAll(SubSeq(text, 1, Len(text) - 1), CurrencySymbols)))

\* C21: a cell with a trailing percent sign and a numeric remainder comes back as
\* <float value>%; a cell whose percent sign is not trailing, or whose remainder is not
\* numeric, comes back as it was handed to the percent step
C21_PercentRewrittenOnlyWhenTrailing ==
    (pipeline = "cell" /\ pc = "cleaned" /\ "%" \in Chars(BeforeNormalizing(raw_cell))) =>
        IF TrailingPercent(BeforeNormalizing(raw_cell))
               /\ PercentRemainder(BeforeNormalizing(raw_cell)).ok
        THEN cleaned_cell =
                 FloatRepr(PercentRemainder(BeforeNormalizing(raw_cell)).neg,
                           PercentRemainder(BeforeNormalizing(raw_cell)).n,
                           PercentRemainder(BeforeNormalizing(raw_cell)).f) \o <<"%">>
        ELSE cleaned_cell = Strip(BeforeNormalizing(raw_cell))

(***************************************************************************)
(* Header Inferencer: grids of one column and grids of one row             *)
(***************************************************************************)
\* C22: a grid whose first row has fewer than 2 entries is never judged to have a header
\* row
C22_SingleColumnNeverHeadered ==
    (HeadersProcessed /\ Len(cleaned_table[1]) < 2) => ~JudgedHeader

\* C22 amended: a grid of fewer than 2 rows is never judged to have a header row, and the
\* synthetic row is put before its only row; a grid of one column and 2 or more rows is
\* judged headered exactly when its first cell does not look numeric
C22_SingleRowNeverHeadered ==
    /\ (HeadersProcessed /\ Len(cleaned_table) < 2) =>
           (~JudgedHeader /\ Tail(processed_table) = cleaned_table)
    /\ (HeadersProcessed /\ Len(cleaned_table) >= 2 /\ Len(cleaned_table[1]) = 1) =>
           (JudgedHeader <=> ~LooksNumeric(cleaned_table[1][1]))

\* a grid of one row of two words was not judged headered, although both cells are text
C22_Witness ==
    /\ HeadersProcessed /\ Len(cleaned_table) = 1 /\ ~JudgedHeader
    /\ Len(cleaned_table[1]) = 2
    /\ \A i \in 1..2 : cleaned_table[1][i] # <<>> /\ ~LooksNumeric(cleaned_table[1][i])

(***************************************************************************)
(* PdfExtractor._deduplicate_tables called on a list of tables of any kind *)
(***************************************************************************)
MaxCandidates == 3

\* a grid of 3 rows and 2 columns of "a" with "b" at the places given
GridWithB(places) ==
    [i \in 1..3 |-> [j \in 1..2 |-> IF <<i, j>> \in places THEN <<"b">> ELSE <<"a">>]]

\* the grids of the candidate tables: no rows, one row without columns, and three grids of
\* which the middle one scores 5/6 against both others and the outer ones 4/6 against each other
CandidateGrids ==
    {<<>>, << <<>> >>, GridWithB({<<1, 1>>}), GridWithB({}), GridWithB({<<3, 2>>})}

\* the table dictionaries passed in: with or without the 'data' and 'accuracy' keys
CandidateTables ==
    {[table_index |-> 0, data |-> d, accuracy |-> a] :
        d \in CandidateGrids, a \in {80, 90}}
    \cup {[table_index |-> 0, data |-> d] : d \in CandidateGrids}
    \cup {[table_index |-> 0, accuracy |-> 90]}

\* the lists of at most n tables
RECURSIVE CandidateLists(_)
CandidateLists(n) ==
    IF n = 0 THEN {<<>>}
    ELSE LET shorter == CandidateLists(n - 1)
         IN shorter \cup {Append(l, t) : l \in {s \in shorter : Len(s) = n - 1},
                                         t \in CandidateTables}

\* the call _deduplicate_tables(tables): every table of the list is an object of its own,
\* id is its identity
InitReconcile ==
    /\ pipeline = "reconcile"
    /\ pc = "dedup"
    /\ \E tables \in CandidateLists(MaxCandidates) :
          all_tables = [k \in 1..Len(tables) |-> [id |-> k] @@ tables[k]]
    /\ unique_tables = <<>>
    /\ idx = 1
    /\ last = NoLocals
    /\ ocr_data = <<>> /\ words = <<>> /\ rows = <<>>
    /\ current_row = <<>> /\ ocr_table = <<>>
    /\ cleaned_table = <<>> /\ processed_table = <<>>
    /\ raw_cell = <<>> /\ cleaned_cell = <<>>
    /\ scored_tables = <<>> /\ method_results = <<>> /\ quality_metrics = <<>>
    /\ warnings = <<>> /\ pdf_result = <<>>
    /\ extraction_result = <<>> /\ table_no = 0 /\ combined_data = <<>> /\ csv_result = <<>> /\ output_file = <<>> /\ response = <<>>
    /\ image_shape = <<>> /\ contours = <<>> /\ detection_raised = FALSE /\ table_regions = <<>> /\ region_no = 0 /\ full_text = <<>> /\ fallback_calls = 0 /\ image_tables = <<>> /\ image_warnings = <<>> /\ image_result = <<>>
    /\ table_info = <<>> /\ temp_file = "absent"

NextReconcile ==
    \/ DedupStep
    \/ DedupReturn

\* one call of _deduplicate_tables
SpecReconcile == InitReconcile /\ [][NextReconcile]_vars

(***************************************************************************)
(* Reconciler: grids without rows or without columns                       *)
(***************************************************************************)
\* a grid with zero rows or zero columns
WithoutCells(table_data) == table_data = <<>> \/ table_data[1] = <<>>

\* the table of the input list with this identity
Candidate(id) == all_tables[id]

\* the accepted table is the table passed in, but for its table_index
AsPassedIn(accepted, table) ==
    /\ DOMAIN accepted = DOMAIN table
    /\ \A key \in DOMAIN table \ {"table_index"} : accepted[key] = table[key]

\* C23: a grid with zero rows or zero columns is never marked a duplicate, never makes an
\* accepted grid be dropped, is never the accepted grid a candidate is compared equal to,
\* and once processed stays in the accumulator and the output as it was passed in
C23_GridsWithoutCellsAlwaysKept ==
    pipeline = "reconcile" =>
        /\ \A k \in 1..(idx - 1) :
              WithoutCells(Data(all_tables[k])) =>
                  Cardinality({m \in 1..Len(unique_tables) :
                                  /\ unique_tables[m].id = k
                                  /\ AsPassedIn(unique_tables[m], all_tables[k])}) = 1
        /\ (last.table # 0 /\ WithoutCells(Data(Candidate(last.table)))) =>
              ~last.is_duplicate /\ ~last.replaced
        /\ last.existing # 0 => ~WithoutCells(Data(Candidate(last.existing)))

\* a finished call whose input held a grid without rows, two grids of one row without
\* columns and a table without the 'data' key
C23_Witness ==
    /\ pipeline = "reconcile" /\ pc = "done"
    /\ Len(all_tables) = 3
    /\ Data(all_tables[1]) = << <<>> >> /\ Data(all_tables[2]) = << <<>> >>
    /\ "data" \notin DOMAIN all_tables[3]
    /\ Len(unique_tables) = 3

(***************************************************************************)
(* Reconciler: duplicates among the tables returned                        *)
(***************************************************************************)
\* C24: when _deduplicate_tables returns, no two tables of its output are duplicates of
\* each other (equal dimensions and a similarity above 0.8)
C24_OutputFreeOfDuplicates ==
    (pipeline = "reconcile" /\ pc = "done") =>
        \A m, n \in 1..Len(unique_tables) :
            m # n => ~IsDuplicateOf(unique_tables[m], unique_tables[n])

(***************************************************************************)
(* Reconciler: the output is a subsequence of the input                    *)
(***************************************************************************)
\* C25: the tables accepted are tables of the input, each with its keys and values as passed
\* in (table_index apart), in the order they have in the input and none twice, so no more
\* than the input holds; on return their table_index values are 0..n-1 in output order
C25_OutputSubsequenceOfInput ==
    pipeline = "reconcile" =>
        /\ \A m \in 1..Len(unique_tables) :
              /\ unique_tables[m].id \in 1..Len(all_tables)
              /\ AsPassedIn(unique_tables[m], Candidate(unique_tables[m].id))
        /\ \A m, n \in 1..Len(unique_tables) :
              m < n => unique_tables[m].id < unique_tables[n].id
        /\ Len(unique_tables) <= Len(all_tables)
        /\ pc = "done" =>
              \A m \in 1..Len(unique_tables) : unique_tables[m].table_index = m - 1

\* a finished call in which the last candidate replaced the first of two accepted tables
C25_Witness ==
    /\ pipeline = "reconcile" /\ pc = "done"
    /\ Len(all_tables) = 3 /\ Len(unique_tables) = 2
    /\ last.replaced /\ last.table = 3 /\ last.existing = 1
    /\ unique_tables[1].id = 2 /\ unique_tables[2].id = 3

(***************************************************************************)
(* Token Clusterer: tokens and cells                                       *)
(***************************************************************************)
\* the places of the grid's cells that hold this text
CellsHolding(text) ==
    {<<i, k>> \in (1..Len(ocr_table)) \X (1..MaxSeq([r \in 1..Len(ocr_table) |->
                                                         Len(ocr_table[r])])) :
        k <= Len(ocr_table[i]) /\ ocr_table[i][k] = text}

\* the accepted tokens with this text
AcceptedWith(text) == {k \in 1..Len(Accepted) : Accepted[k].text = text}

\* the texts of the accepted tokens and of the grid's cells that are not empty
TokenAndCellTexts ==
    ({Accepted[k].text : k \in 1..Len(Accepted)}
        \cup UNION {{ocr_table[i][k] : k \in 1..Len(ocr_table[i])} : i \in 1..Len(ocr_table)})
    \ {<<>>}

\* C26: the grid _parse_ocr_to_table returns holds every accepted token in exactly one cell
\* and nothing else in its non-empty cells (every text is in as many cells as accepted
\* tokens carry it), and the empty cells of a row all come after its tokens
C26_OneCellPerAcceptedToken ==
    (pipeline = "image" /\ pc = "done") =>
        /\ \A text \in TokenAndCellTexts :
              Cardinality(CellsHolding(text)) = Cardinality(AcceptedWith(text))
        /\ \A i \in 1..Len(ocr_table) :
              \A k \in 1..Len(ocr_table[i]) :
                  ocr_table[i][k] = <<>> =>
                      \A later \in k..Len(ocr_table[i]) : ocr_table[i][later] = <<>>

\* a grid of two rows, one of two tokens and one of a single token and an empty cell, from
\* an OCR result of which every entry was accepted
C26_Witness ==
    /\ pipeline = "image" /\ pc = "done"
    /\ Len(Accepted) = 3 /\ Len(ocr_data) = 3
    /\ Len(ocr_table) = 2
    /\ \E i \in 1..2 : ocr_table[i][2] = <<>> /\ ocr_table[i][1] # <<>>

(***************************************************************************)
(* Cell Normalizer: the form of a cleaned cell                             *)
(***************************************************************************)
\* C27: the text _clean_cell_content returns has no whitespace at either end, no null byte,
\* byte-order mark or carriage return, and no two spaces in a row
C27_CleanedCellWellFormed ==
    (pipeline = "cell" /\ pc = "cleaned") =>
        /\ cleaned_cell = Strip(cleaned_cell)
        /\ \A k \in 1..Len(cleaned_cell) : cleaned_cell[k] \notin {"NUL", "BOM", "\r"}
        /\ \A k \in 1..(Len(cleaned_cell) - 1) :
              ~(cleaned_cell[k] = " " /\ cleaned_cell[k + 1] = " ")

(***************************************************************************)
(* The CSV read back: csv.reader with the default dialect                  *)
(***************************************************************************)
\* the reader's state machine over the rest of the text: the rows read so far, the fields
\* of the open row, the open field and the state
RECURSIVE ReadFrom(_, _, _, _, _)
ReadFrom(text, read, row, field, state) ==
    IF text = <<>>
    THEN IF state = "START_RECORD" THEN read ELSE Append(read, Append(row, field))
    ELSE LET c == Head(text)
             rest == Tail(text)
         IN IF state = "START_RECORD" /\ c = "\n"
            THEN ReadFrom(rest, Append(read, <<>>), <<>>, <<>>, "START_RECORD")
            ELSE IF state \in {"START_RECORD", "START_FIELD"}
            THEN IF c = "\n"
                 THEN ReadFrom(rest, Append(read, Append(row, <<>>)), <<>>, <<>>,
                               "START_RECORD")
                 ELSE IF c = "\"" THEN ReadFrom(rest, read, row, <<>>, "IN_QUOTED_FIELD")
                 ELSE IF c = "," THEN ReadFrom(rest, read, Append(row, <<>>), <<>>,
                                               "START_FIELD")
                 ELSE ReadFrom(rest, read, row, <<c>>, "IN_FIELD")
            ELSE IF state = "IN_FIELD"
            THEN IF c = "\n"
                 THEN ReadFrom(rest, Append(read, Append(row, field)), <<>>, <<>>,
                               "START_RECORD")
                 ELSE IF c = "," THEN ReadFrom(rest, read, Append(row, field), <<>>,
                                               "START_FIELD")
                 ELSE ReadFrom(rest, read, row, Append(field, c), "IN_FIELD")
            ELSE IF state = "IN_QUOTED_FIELD"
            THEN IF c = "\""
                 THEN ReadFrom(rest, read, row, field, "QUOTE_IN_QUOTED_FIELD")
                 ELSE ReadFrom(rest, read, row, Append(field, c), "IN_QUOTED_FIELD")
            ELSE IF c = "\""
                 THEN ReadFrom(rest, read, row, Append(field, c), "IN_QUOTED_FIELD")
                 ELSE IF c = "," THEN ReadFrom(rest, read, Append(row, field), <<>>,
                                               "START_FIELD")
                 ELSE IF c = "\n"
                 THEN ReadFrom(rest, Append(read, Append(row, field)), <<>>, <<>>,
                               "START_RECORD")
                 ELSE ReadFrom(rest, read, row, Append(field, c), "IN_FIELD")

\* list(csv.reader(io.StringIO(text)))
ReadCsv(text) == ReadFrom(text, <<>>, <<>>, <<>>, "START_RECORD")

(***************************************************************************)
(* CSV Conversion: quotes on the way to the CSV and back                   *)
(***************************************************************************)
\* the number of quote characters in a text
QuoteCount(text) == Cardinality({k \in 1..Len(text) : text[k] = "\""})

\* C28: when a single table none of whose rows is dropped has been converted, the CSV read
\* back holds, for every cell of the table's rows after the first, a cell with as many quote
\* characters as the extracted cell has (the rows after the first are the last rows of the
\* CSV, whether or not a header row was put before them)
C28_QuotesSurviveOnce ==
    (pipeline = "convert" /\ pc = "converted" /\ csv_result.success
        /\ Len(extraction_result.tables) = 1
        /\ Len(DataProcessorCleanTableData(extraction_result.tables[1].data))
               = Len(extraction_result.tables[1].data)) =>
        LET table_data == extraction_result.tables[1].data
            read == ReadCsv(csv_result.csv_content)
        IN \A r \in 2..Len(table_data) :
               \A k \in 1..Len(table_data[r]) :
                   QuoteCount(read[Len(read) - Len(table_data) + r][k])
                       = QuoteCount(table_data[r][k])

(***************************************************************************)
(* CSV Conversion: has_headers in table_info                               *)
(***************************************************************************)
\* C29: the has_headers reported for a table is the judgement header detection made of the
\* cleaned grid: true when its first row was judged a header row, false when the row
\* Column_1..Column_k was put before it
C29_HasHeadersReportsDetection ==
    (pipeline = "convert" /\ pc \in {"tables", "converted", "responded"}
        /\ table_info # <<>>) =>
        (table_info[Len(table_info)].has_headers <=> HasHeaders(cleaned_table))

(***************************************************************************)
(* Conversion of one upload: the temporary upload file                     *)
(***************************************************************************)
\* C30: whenever convert_file has returned a response after saving the upload (success,
\* extraction failure, conversion failure or unexpected exception), the file at
\* temp_filepath has been removed
C30_UploadRemovedOnEveryReturn ==
    (pipeline = "convert" /\ pc = "responded") => temp_file = "removed"


====
